---- MODULE Spec2Model ----
(***************************************************************************)
(* Model of the markdown-ast crate: the event unflattener (unflatten.rs),  *)
(* the AST builder (from_events.rs) and the AST serializer (to_events.rs), *)
(* composed as events_to_ast and ast_to_events (lib.rs); of the notebook    *)
(* exporter of the md2nb crate (nb.rs); and of the expression conversions  *)
(* of the wolfram-markdown-link crate.                                     *)
(*                                                                         *)
(* There is one specification per program: Spec for markdown-ast, NbSpec   *)
(* for md2nb and WlSpec for wolfram-markdown-link. The variables of the    *)
(* other programs stay at their idle values.                               *)
(*                                                                         *)
(* A fatal failure (panic!, todo!, unreachable!, a failed assert!, or an   *)
(* unwrap/expect on None) is the value Panic for a pure function and the   *)
(* control state "panic" for the pipeline.                                 *)
(***************************************************************************)
EXTENDS Integers, Sequences, FiniteSets, TLC

VARIABLES
    mode,              \* "events": events_to_ast then ast_to_events; "ast": the reverse
    debug_assertions,  \* build profile: whether debug_assert! is compiled in
    blocks,            \* the Vec<Block> handed to ast_to_events
    event_stream,      \* the events handed to events_to_ast
    pos,               \* number of events of event_stream already handled
    root,              \* Unflattener.root
    nested,            \* Unflattener.nested: stack of <<tag, events>>
    emitted,           \* history: one record per Nested node pushed by handle_event
    events,            \* ast_events_to_ast: the nodes of the top level not yet visited
    complete,          \* ast_events_to_ast: `complete`
    text_spans,        \* ast_events_to_ast: `text_spans`
    ast,               \* the Vec<Block> returned by events_to_ast
    out,               \* the Vec<Event> returned by ast_to_events
    pc,                \* "serialize" | "unflatten" | "build" | "done" | "panic"
    nb_block,          \* md2nb: the Block handed to block_to_cells
    nb_opts,           \* md2nb: the Options handed to block_to_cells
    nb_state,          \* md2nb: the State of each block_to_cells call in progress
    nb_stack,          \* md2nb: the calls and loops in progress, innermost last
    nb_cells,          \* md2nb: the Vec<Expr> returned by block_to_cells
    nb_pc,             \* md2nb: "run" | "done" | "panic"
    wl_block,          \* wolfram-markdown-link: the Block handed to block_to_expr
    wl_expr,           \* wolfram-markdown-link: the Expr block_to_expr returned
    wl_parsed,         \* wolfram-markdown-link: what parse_expr_to_block returned
    wl_pc              \* wolfram-markdown-link: "block_to_expr" |
                       \* "parse_expr_to_block" | "done" | "panic"

md_vars == <<mode, debug_assertions, blocks, event_stream, pos, root, nested,
             emitted, events, complete, text_spans, ast, out, pc>>
nb_vars == <<nb_block, nb_opts, nb_state, nb_stack, nb_cells, nb_pc>>
wl_vars == <<wl_block, wl_expr, wl_parsed, wl_pc>>
vars == <<md_vars, nb_vars, wl_vars>>

\* The idle values of the variables of each program.
MdIdle ==
    /\ mode = "idle"
    /\ debug_assertions = FALSE
    /\ blocks = <<>>
    /\ event_stream = <<>>
    /\ pos = 0
    /\ root = <<>>
    /\ nested = <<>>
    /\ emitted = <<>>
    /\ events = <<>>
    /\ complete = <<>>
    /\ text_spans = <<>>
    /\ ast = <<>>
    /\ out = <<>>
    /\ pc = "idle"

NbIdle ==
    /\ nb_block = <<>>
    /\ nb_opts = <<>>
    /\ nb_state = <<>>
    /\ nb_stack = <<>>
    /\ nb_cells = <<>>
    /\ nb_pc = "idle"

WlIdle ==
    /\ wl_block = <<>>
    /\ wl_expr = <<>>
    /\ wl_parsed = <<>>
    /\ wl_pc = "idle"

(***************************************************************************)
(* Option<T>: None is the empty sequence, Some(x) the one-element one.     *)
(***************************************************************************)
None == <<>>
Some(x) == <<x>>

(***************************************************************************)
(* pulldown_cmark::Tag, TagEnd and Event, by shape.                        *)
(***************************************************************************)
Tag_Paragraph == [t |-> "Paragraph"]
Tag_Heading(level, id) == [t |-> "Heading", level |-> level, id |-> id,
                           classes |-> <<>>, attrs |-> <<>>]
Tag_BlockQuote(kind) == [t |-> "BlockQuote", kind |-> kind]
Tag_CodeBlock(kind) == [t |-> "CodeBlock", kind |-> kind]
Tag_HtmlBlock == [t |-> "HtmlBlock"]
Tag_List(start) == [t |-> "List", start |-> start]
Tag_Item == [t |-> "Item"]
Tag_FootnoteDefinition(label) == [t |-> "FootnoteDefinition", label |-> label]
Tag_Table(alignments) == [t |-> "Table", alignments |-> alignments]
Tag_TableHead == [t |-> "TableHead"]
Tag_TableRow == [t |-> "TableRow"]
Tag_TableCell == [t |-> "TableCell"]
Tag_Emphasis == [t |-> "Emphasis"]
Tag_Strong == [t |-> "Strong"]
Tag_Strikethrough == [t |-> "Strikethrough"]
Tag_Link(link_type, dest_url, title, id) ==
    [t |-> "Link", link_type |-> link_type, dest_url |-> dest_url,
     title |-> title, id |-> id]
Tag_Image(link_type, dest_url, title, id) ==
    [t |-> "Image", link_type |-> link_type, dest_url |-> dest_url,
     title |-> title, id |-> id]
Tag_MetadataBlock(kind) == [t |-> "MetadataBlock", kind |-> kind]

md_Indented == [md |-> "Indented"]
md_Fenced(info) == [md |-> "Fenced", info |-> info]

TagEnd_Heading(level) == [t |-> "Heading", level |-> level]
TagEnd_BlockQuote(kind) == [t |-> "BlockQuote", kind |-> kind]
TagEnd_List(ordered) == [t |-> "List", ordered |-> ordered]
TagEnd_MetadataBlock(kind) == [t |-> "MetadataBlock", kind |-> kind]
TagEnd_Plain(name) == [t |-> name]

Event_Start(tag) == [k |-> "Start", tag |-> tag]
Event_End(tag_end) == [k |-> "End", tag |-> tag_end]
Event_Text(s) == [k |-> "Text", s |-> s]
Event_Code(s) == [k |-> "Code", s |-> s]
Event_Html(s) == [k |-> "Html", s |-> s]
Event_InlineHtml(s) == [k |-> "InlineHtml", s |-> s]
Event_InlineMath(s) == [k |-> "InlineMath", s |-> s]
Event_DisplayMath(s) == [k |-> "DisplayMath", s |-> s]
Event_FootnoteReference(s) == [k |-> "FootnoteReference", s |-> s]
Event_TaskListMarker(checked) == [k |-> "TaskListMarker", checked |-> checked]
Event_SoftBreak == [k |-> "SoftBreak"]
Event_HardBreak == [k |-> "HardBreak"]
Event_Rule == [k |-> "Rule"]

\* Tag::to_end: the closing form of a tag (the tag's identity, its payload
\* dropped except a heading's level, a list's orderedness, a quote's kind).
to_end(tag) ==
    CASE tag.t = "Heading" -> TagEnd_Heading(tag.level)
      [] tag.t = "BlockQuote" -> TagEnd_BlockQuote(tag.kind)
      [] tag.t = "List" -> TagEnd_List(tag.start # None)
      [] tag.t = "MetadataBlock" -> TagEnd_MetadataBlock(tag.kind)
      [] OTHER -> TagEnd_Plain(tag.t)

(***************************************************************************)
(* unflatten.rs: UnflattenedEvent.                                         *)
(***************************************************************************)
UnflattenedEvent_Event(event) == [u |-> "Event", event |-> event]
UnflattenedEvent_Nested(tag, evs) == [u |-> "Nested", tag |-> tag, events |-> evs]

(***************************************************************************)
(* lib.rs: the AST. Inlines and ListItem are newtypes around a Vec and are *)
(* the sequence itself here.                                               *)
(***************************************************************************)
Inline_Text(s) == [i |-> "Text", s |-> s]
Inline_Emphasis(inlines) == [i |-> "Emphasis", inlines |-> inlines]
Inline_Strong(inlines) == [i |-> "Strong", inlines |-> inlines]
Inline_Strikethrough(inlines) == [i |-> "Strikethrough", inlines |-> inlines]
Inline_Code(s) == [i |-> "Code", s |-> s]
Inline_Link(link_type, dest_url, title, id, content_text) ==
    [i |-> "Link", link_type |-> link_type, dest_url |-> dest_url,
     title |-> title, id |-> id, content_text |-> content_text]
Inline_Image(link_type, dest_url, title, id, image_description) ==
    [i |-> "Image", link_type |-> link_type, dest_url |-> dest_url,
     title |-> title, id |-> id, image_description |-> image_description]
Inline_SoftBreak == [i |-> "SoftBreak"]
Inline_HardBreak == [i |-> "HardBreak"]

CodeBlockKind_Fenced(info_string) == [kind |-> "Fenced", info_string |-> info_string]
CodeBlockKind_Indented == [kind |-> "Indented"]

Block_Paragraph(inlines) == [b |-> "Paragraph", inlines |-> inlines]
Block_List(items) == [b |-> "List", items |-> items]
Block_Heading(level, inlines) == [b |-> "Heading", level |-> level, inlines |-> inlines]
Block_CodeBlock(kind, code) == [b |-> "CodeBlock", kind |-> kind, code |-> code]
Block_BlockQuote(kind, bs) == [b |-> "BlockQuote", kind |-> kind, blocks |-> bs]
Block_Table(alignments, headers, rows) ==
    [b |-> "Table", alignments |-> alignments, headers |-> headers, rows |-> rows]
Block_Rule == [b |-> "Rule"]

\* CodeBlockKind::from_pulldown_cmark
from_pulldown_cmark(kind) ==
    IF kind.md = "Indented" THEN CodeBlockKind_Indented
    ELSE CodeBlockKind_Fenced(kind.info)

\* CodeBlockKind::to_pulldown_cmark
to_pulldown_cmark(kind) ==
    IF kind.kind = "Fenced" THEN md_Fenced(kind.info_string)
    ELSE md_Indented

\* The value of a function that panicked.
Panic == [ok |-> FALSE]
Ok(v) == [ok |-> TRUE, v |-> v]

(***************************************************************************)
(* from_events.rs: the inline resolver.                                    *)
(***************************************************************************)
RECURSIVE unwrap_text(_)
RECURSIVE unwrap_text_loop(_, _)
RECURSIVE unwrap_text_event(_, _)
RECURSIVE unwrap_text_nested(_, _, _)

\* A mutant of unwrap_text_atomic: an event of no inline is left out.
unwrap_text_atomic_skips(spans, event) ==
    CASE event.k = "Text" -> Ok(Append(spans, Inline_Text(event.s)))
      [] event.k = "Code" -> Ok(Append(spans, Inline_Code(event.s)))
      [] event.k = "SoftBreak" -> Ok(Append(spans, Inline_SoftBreak))
      [] event.k = "HardBreak" -> Ok(Append(spans, Inline_HardBreak))
      [] OTHER -> Ok(spans)

\* A mutant of unwrap_text_atomic: a code span is left out.
unwrap_text_atomic_drops_code(spans, event) ==
    CASE event.k = "Text" -> Ok(Append(spans, Inline_Text(event.s)))
      [] event.k = "Code" -> Ok(spans)
      [] event.k = "SoftBreak" -> Ok(Append(spans, Inline_SoftBreak))
      [] event.k = "HardBreak" -> Ok(Append(spans, Inline_HardBreak))
      [] OTHER -> Panic

\* unwrap_text, the match on an atomic event (lines 251-270).
unwrap_text_atomic(spans, event) ==
    CASE event.k = "Text" -> Ok(Append(spans, Inline_Text(event.s)))
      [] event.k = "Code" -> Ok(Append(spans, Inline_Code(event.s)))
      [] event.k = "SoftBreak" -> Ok(Append(spans, Inline_SoftBreak))
      [] event.k = "HardBreak" -> Ok(Append(spans, Inline_HardBreak))
      [] OTHER -> Panic   \* Start/End: unreachable!(); every other event: todo!()

\* A mutant of paragraph_break: the breaks are pushed in any case.
paragraph_break_always(spans) == spans \o <<Inline_HardBreak, Inline_HardBreak>>

\* A mutant of paragraph_break: one break is pushed.
paragraph_break_once(spans) ==
    IF spans # <<>> THEN spans \o <<Inline_HardBreak>> ELSE spans

\* unwrap_text, the Tag::Paragraph arm up to the recursive call (lines 281-290).
paragraph_break(spans) ==
    IF spans # <<>> THEN spans \o <<Inline_HardBreak, Inline_HardBreak>> ELSE spans

RECURSIVE unwrap_text_nested_drops(_, _, _)
\* A mutant of unwrap_text_nested: a node of a tag that is no inline is left out.
unwrap_text_nested_drops(spans, tag, evs) ==
    IF tag.t \in {"Emphasis", "Strong", "Strikethrough", "Paragraph", "Link", "Image"}
    THEN LET inner == unwrap_text(evs) IN
         IF ~inner.ok THEN Panic
         ELSE (CASE tag.t = "Emphasis" -> Ok(Append(spans, Inline_Emphasis(inner.v)))
                [] tag.t = "Strong" -> Ok(Append(spans, Inline_Strong(inner.v)))
                [] tag.t = "Strikethrough" ->
                       Ok(Append(spans, Inline_Strikethrough(inner.v)))
                [] tag.t = "Paragraph" -> Ok(paragraph_break(spans) \o inner.v)
                [] tag.t = "Link" ->
                       Ok(Append(spans, Inline_Link(tag.link_type, tag.dest_url,
                                                    tag.title, tag.id, inner.v)))
                [] tag.t = "Image" ->
                       Ok(Append(spans, Inline_Image(tag.link_type, tag.dest_url,
                                                     tag.title, tag.id, inner.v))))
    ELSE Ok(spans)

\* unwrap_text, the match on a nested node (lines 271-344).
unwrap_text_nested(spans, tag, evs) ==
    IF tag.t \in {"Emphasis", "Strong", "Strikethrough", "Paragraph", "Link", "Image"}
    THEN LET inner == unwrap_text(evs) IN
         IF ~inner.ok THEN Panic
         ELSE (CASE tag.t = "Emphasis" -> Ok(Append(spans, Inline_Emphasis(inner.v)))
                [] tag.t = "Strong" -> Ok(Append(spans, Inline_Strong(inner.v)))
                [] tag.t = "Strikethrough" ->
                       Ok(Append(spans, Inline_Strikethrough(inner.v)))
                [] tag.t = "Paragraph" -> Ok(paragraph_break(spans) \o inner.v)
                [] tag.t = "Link" ->
                       Ok(Append(spans, Inline_Link(tag.link_type, tag.dest_url,
                                                    tag.title, tag.id, inner.v)))
                [] tag.t = "Image" ->
                       Ok(Append(spans, Inline_Image(tag.link_type, tag.dest_url,
                                                     tag.title, tag.id, inner.v))))
    ELSE Panic   \* "unexpected non-inline element inside inlines parse context"

\* unwrap_text, one iteration of `for event in events` (lines 249-346).
unwrap_text_event(spans, event) ==
    IF event.u = "Event" THEN unwrap_text_atomic(spans, event.event)
    ELSE unwrap_text_nested(spans, event.tag, event.events)

unwrap_text_loop(evs, spans) ==
    IF evs = <<>> THEN Ok(spans)
    ELSE LET r == unwrap_text_event(spans, Head(evs)) IN
         IF r.ok THEN unwrap_text_loop(Tail(evs), r.v) ELSE Panic

unwrap_text(evs) == unwrap_text_loop(evs, <<>>)

\* A mutant of unwrap_table_cell: the tag of the cell is not asserted.
unwrap_table_cell_any_tag(event) ==
    IF event.u = "Event" THEN Panic ELSE Ok(event.events)

\* unwrap_table_cell
unwrap_table_cell(event) ==
    IF event.u = "Event" THEN Panic
    ELSE IF event.tag # Tag_TableCell THEN Panic
    ELSE Ok(event.events)

\* A mutant of text_to_string_span: a soft break becomes a newline.
text_to_string_span_newline(string, span) ==
    CASE span.i = "Text" -> Ok(string \o span.s)
      [] span.i = "SoftBreak" -> Ok(string \o "\n")
      [] span.i = "HardBreak" -> Ok(string \o "\n")
      [] OTHER -> Panic

\* A mutant of text_to_string_span: a code span is taken as text.
text_to_string_span_code(string, span) ==
    CASE span.i \in {"Text", "Code"} -> Ok(string \o span.s)
      [] span.i = "SoftBreak" -> Ok(string \o " ")
      [] span.i = "HardBreak" -> Ok(string \o "\n")
      [] OTHER -> Panic

\* text_to_string, the match on one span (lines 365-376).
text_to_string_span(string, span) ==
    CASE span.i = "Text" -> Ok(string \o span.s)
      [] span.i = "SoftBreak" -> Ok(string \o " ")
      [] span.i = "HardBreak" -> Ok(string \o "\n")
      [] OTHER -> Panic

RECURSIVE text_to_string_loop(_, _)
text_to_string_loop(spans, string) ==
    IF spans = <<>> THEN Ok(string)
    ELSE LET r == text_to_string_span(string, Head(spans)) IN
         IF r.ok THEN text_to_string_loop(Tail(spans), r.v) ELSE Panic

text_to_string(spans) == text_to_string_loop(spans, "")

(***************************************************************************)
(* from_events.rs: the block builder.                                      *)
(***************************************************************************)
\* is_inline: Ok(TRUE), Ok(FALSE), or Panic for the arms that are
\* unreachable!() or todo!().
is_inline(event) ==
    IF event.u = "Event"
    THEN (CASE event.event.k \in {"Text", "Code", "SoftBreak", "HardBreak"} -> Ok(TRUE)
           [] event.event.k = "Html" -> Ok(FALSE)
           [] event.event.k = "Rule" -> Ok(FALSE)
           [] event.event.k = "TaskListMarker" -> Ok(FALSE)
           [] event.event.k = "FootnoteReference" -> Ok(TRUE)
           [] OTHER -> Panic)   \* Start, End, InlineHtml, InlineMath, DisplayMath
    ELSE CASE event.tag.t \in {"Emphasis", "Strong", "Strikethrough"} -> Ok(TRUE)
           [] event.tag.t \in {"Heading", "Paragraph", "List", "Item", "CodeBlock",
                               "BlockQuote", "Table"} -> Ok(FALSE)
           [] event.tag.t = "Link" -> Ok(TRUE)
           [] OTHER -> Panic   \* TableHead, TableRow: unreachable!(); the rest: todo!()

\* The state of one ast_events_to_ast call: its two locals.
BuilderState(c, t) == [complete |-> c, text_spans |-> t]

\* A mutant of flush: nothing is flushed.
flush_never(st, inline) == st

\* A mutant of flush: the pending inlines are not taken out of text_spans.
flush_keeps_text_spans(st, inline) ==
    IF ~inline /\ st.text_spans # <<>>
    THEN BuilderState(Append(st.complete, Block_Paragraph(st.text_spans)),
                      st.text_spans)
    ELSE st

\* ast_events_to_ast, lines 24-31: the flush before a node that is not inline.
flush(st, inline) ==
    IF ~inline /\ st.text_spans # <<>>
    THEN BuilderState(Append(st.complete, Block_Paragraph(st.text_spans)), <<>>)
    ELSE st

RECURSIVE ast_events_to_ast(_)
RECURSIVE ast_events_to_ast_loop(_, _)
RECURSIVE ast_events_to_ast_event(_, _)
RECURSIVE dispatch_nested(_, _, _)
RECURSIVE list_items(_, _)
RECURSIVE table_cells(_, _)
RECURSIVE table_rows(_, _)

RECURSIVE list_items_skips(_, _)
\* A mutant of list_items: a child that is no Item is left out.
list_items_skips(evs, items) ==
    IF evs = <<>> THEN Ok(items)
    ELSE LET event == Head(evs) IN
         IF event.u = "Nested" /\ event.tag = Tag_Item
         THEN LET item_blocks == ast_events_to_ast(event.events) IN
              IF item_blocks.ok
              THEN list_items_skips(Tail(evs), Append(items, item_blocks.v))
              ELSE Panic
         ELSE list_items_skips(Tail(evs), items)

\* ast_events_to_ast, Tag::List: `for event in events` (lines 109-121).
list_items(evs, items) ==
    IF evs = <<>> THEN Ok(items)
    ELSE LET event == Head(evs) IN
         IF event.u = "Nested" /\ event.tag = Tag_Item
         THEN LET item_blocks == ast_events_to_ast(event.events) IN
              IF item_blocks.ok
              THEN list_items(Tail(evs), Append(items, item_blocks.v))
              ELSE Panic
         ELSE Panic   \* todo!("handle list element")

\* ast_events_to_ast, Tag::Table: `for table_cell in ...` (lines 155-160, 175-180).
table_cells(cell_events, cells) ==
    IF cell_events = <<>> THEN Ok(cells)
    ELSE LET inner == unwrap_table_cell(Head(cell_events)) IN
         IF ~inner.ok THEN Panic
         ELSE LET table_cell_text == unwrap_text(inner.v) IN
              IF table_cell_text.ok
              THEN table_cells(Tail(cell_events), Append(cells, table_cell_text.v))
              ELSE Panic

\* ast_events_to_ast, Tag::Table: `for row_events in events` (lines 164-183).
table_rows(evs, rows) ==
    IF evs = <<>> THEN Ok(rows)
    ELSE LET row_events == Head(evs) IN
         IF row_events.u = "Event" THEN Panic
         ELSE IF row_events.tag # Tag_TableRow THEN Panic
         ELSE LET row == table_cells(row_events.events, <<>>) IN
              IF row.ok THEN table_rows(Tail(evs), Append(rows, row.v)) ELSE Panic

\* ast_events_to_ast, Tag::Table (lines 143-190).
table_block(alignments, evs) ==
    IF evs = <<>> THEN Panic   \* events.next().unwrap()
    ELSE IF Head(evs).u = "Event" THEN Panic
    ELSE IF Head(evs).tag # Tag_TableHead THEN Panic
    ELSE LET headers == table_cells(Head(evs).events, <<>>) IN
         IF ~headers.ok THEN Panic
         ELSE LET rows == table_rows(Tail(evs), <<>>) IN
              IF rows.ok THEN Ok(Block_Table(alignments, headers.v, rows.v))
              ELSE Panic

\* ast_events_to_ast, Tag::CodeBlock (lines 128-138).
code_block(kind, evs) ==
    LET spans == unwrap_text(evs) IN
    IF ~spans.ok THEN Panic
    ELSE LET code_text == text_to_string(spans.v) IN
         IF code_text.ok
         THEN Ok(Block_CodeBlock(from_pulldown_cmark(kind), code_text.v))
         ELSE Panic

\* A mutant of dispatch_atomic: raw HTML and a task marker are left out.
dispatch_atomic_skips(st, event) ==
    CASE event.k = "Text" ->
             Ok(BuilderState(st.complete, Append(st.text_spans, Inline_Text(event.s))))
      [] event.k = "Code" ->
             Ok(BuilderState(st.complete, Append(st.text_spans, Inline_Code(event.s))))
      [] event.k = "SoftBreak" ->
             Ok(BuilderState(st.complete, Append(st.text_spans, Inline_SoftBreak)))
      [] event.k = "HardBreak" ->
             Ok(BuilderState(st.complete, Append(st.text_spans, Inline_HardBreak)))
      [] event.k = "Rule" ->
             Ok(BuilderState(Append(st.complete, Block_Rule), st.text_spans))
      [] event.k \in {"Html", "TaskListMarker"} -> Ok(st)
      [] OTHER -> Panic

\* ast_events_to_ast, the match on an atomic event (lines 34-54).
dispatch_atomic(st, event) ==
    CASE event.k = "Text" ->
             Ok(BuilderState(st.complete, Append(st.text_spans, Inline_Text(event.s))))
      [] event.k = "Code" ->
             Ok(BuilderState(st.complete, Append(st.text_spans, Inline_Code(event.s))))
      [] event.k = "SoftBreak" ->
             Ok(BuilderState(st.complete, Append(st.text_spans, Inline_SoftBreak)))
      [] event.k = "HardBreak" ->
             Ok(BuilderState(st.complete, Append(st.text_spans, Inline_HardBreak)))
      [] event.k = "Rule" ->
             Ok(BuilderState(Append(st.complete, Block_Rule), st.text_spans))
      [] OTHER -> Panic   \* Start/End: panic!(); every other event: todo!()

\* ast_events_to_ast, the match on a nested node (lines 55-193).
dispatch_nested(st, tag, evs) ==
    CASE tag.t \in {"Emphasis", "Strong", "Strikethrough", "Link", "Heading",
                    "Paragraph"} ->
             LET inner == unwrap_text(evs) IN
             IF ~inner.ok THEN Panic
             ELSE (CASE tag.t = "Emphasis" ->
                           Ok(BuilderState(st.complete,
                               Append(st.text_spans, Inline_Emphasis(inner.v))))
                    [] tag.t = "Strong" ->
                           Ok(BuilderState(st.complete,
                               Append(st.text_spans, Inline_Strong(inner.v))))
                    [] tag.t = "Strikethrough" ->
                           Ok(BuilderState(st.complete,
                               Append(st.text_spans, Inline_Strikethrough(inner.v))))
                    [] tag.t = "Link" ->
                           Ok(BuilderState(st.complete,
                               Append(st.text_spans,
                                      Inline_Link(tag.link_type, tag.dest_url,
                                                  tag.title, tag.id, inner.v))))
                    [] tag.t = "Heading" ->
                           Ok(BuilderState(
                               Append(st.complete, Block_Heading(tag.level, inner.v)),
                               st.text_spans))
                    [] tag.t = "Paragraph" ->
                           Ok(BuilderState(st.complete, st.text_spans \o inner.v)))
      [] tag.t = "List" ->
             LET items == list_items(evs, <<>>) IN
             IF items.ok
             THEN Ok(BuilderState(Append(st.complete, Block_List(items.v)),
                                  st.text_spans))
             ELSE Panic
      [] tag.t \in {"Item", "BlockQuote"} ->
             LET bs == ast_events_to_ast(evs) IN
             IF ~bs.ok THEN Panic
             ELSE IF tag.t = "Item"
             THEN Ok(BuilderState(st.complete \o bs.v, st.text_spans))
             ELSE Ok(BuilderState(
                      Append(st.complete, Block_BlockQuote(tag.kind, bs.v)),
                      st.text_spans))
      [] tag.t = "CodeBlock" ->
             LET b == code_block(tag.kind, evs) IN
             IF b.ok THEN Ok(BuilderState(Append(st.complete, b.v), st.text_spans))
             ELSE Panic
      [] tag.t = "Table" ->
             LET b == table_block(tag.alignments, evs) IN
             IF b.ok THEN Ok(BuilderState(Append(st.complete, b.v), st.text_spans))
             ELSE Panic
      [] OTHER -> Panic   \* todo!("handle: {tag:?}")

RECURSIVE ast_events_to_ast_event_paragraph_block(_, _)
\* A mutant of ast_events_to_ast_event: a Paragraph node is pushed as a block
\* of its own.
ast_events_to_ast_event_paragraph_block(st, event) ==
    LET inline == is_inline(event) IN
    IF ~inline.ok THEN Panic
    ELSE LET flushed == flush(st, inline.v) IN
         IF event.u = "Event" THEN dispatch_atomic(flushed, event.event)
         ELSE IF event.tag.t = "Paragraph"
         THEN LET inner == unwrap_text(event.events) IN
              IF inner.ok
              THEN Ok(BuilderState(Append(flushed.complete, Block_Paragraph(inner.v)),
                                   flushed.text_spans))
              ELSE Panic
         ELSE dispatch_nested(flushed, event.tag, event.events)

\* ast_events_to_ast, one iteration of `for event in events` (lines 21-195).
ast_events_to_ast_event(st, event) ==
    LET inline == is_inline(event) IN
    IF ~inline.ok THEN Panic
    ELSE LET flushed == flush(st, inline.v) IN
         IF event.u = "Event" THEN dispatch_atomic(flushed, event.event)
         ELSE dispatch_nested(flushed, event.tag, event.events)

\* A mutant of finish_blocks: the pending inlines are dropped at the end.
finish_blocks_drops(st) == st.complete

\* A mutant of finish_blocks: a Paragraph is pushed at the end in any case.
finish_blocks_always(st) == Append(st.complete, Block_Paragraph(st.text_spans))

\* ast_events_to_ast, lines 197-201: the final flush and the return value.
finish_blocks(st) ==
    IF st.text_spans # <<>>
    THEN Append(st.complete, Block_Paragraph(st.text_spans))
    ELSE st.complete

ast_events_to_ast_loop(evs, st) ==
    IF evs = <<>> THEN Ok(finish_blocks(st))
    ELSE LET r == ast_events_to_ast_event(st, Head(evs)) IN
         IF r.ok THEN ast_events_to_ast_loop(Tail(evs), r.v) ELSE Panic

ast_events_to_ast(evs) == ast_events_to_ast_loop(evs, BuilderState(<<>>, <<>>))

(***************************************************************************)
(* to_events.rs: the serializer. A function that pushes onto `events` is   *)
(* the sequence of events it pushes.                                       *)
(***************************************************************************)
\* A mutant of wrap: the End is not pushed.
wrap_without_End(tag, pushed) == <<Event_Start(tag)>> \o pushed

\* wrap: Start(tag), what `action` pushes, End(tag.to_end()).
wrap(tag, pushed) == <<Event_Start(tag)>> \o pushed \o <<Event_End(to_end(tag))>>

RECURSIVE inlines_to_events(_)
RECURSIVE inline_to_events(_)
RECURSIVE block_to_events(_)
RECURSIVE blocks_to_events(_)
RECURSIVE item_events(_, _)

RECURSIVE inline_to_events_drops_title(_)
\* A mutant of inline_to_events: the title of a link is not passed through.
inline_to_events_drops_title(inline) ==
    CASE inline.i = "Text" -> <<Event_Text(inline.s)>>
      [] inline.i = "Emphasis" -> wrap(Tag_Emphasis, inlines_to_events(inline.inlines))
      [] inline.i = "Strong" -> wrap(Tag_Strong, inlines_to_events(inline.inlines))
      [] inline.i = "Strikethrough" ->
             wrap(Tag_Strikethrough, inlines_to_events(inline.inlines))
      [] inline.i = "Code" -> <<Event_Code(inline.s)>>
      [] inline.i = "Link" ->
             wrap(Tag_Link(inline.link_type, inline.dest_url, "", inline.id),
                  inlines_to_events(inline.content_text))
      [] inline.i = "Image" ->
             wrap(Tag_Image(inline.link_type, inline.dest_url, inline.title, inline.id),
                  inlines_to_events(inline.image_description))
      [] inline.i = "SoftBreak" -> <<Event_SoftBreak>>
      [] inline.i = "HardBreak" -> <<Event_HardBreak>>

\* inlines_to_events, the match on one inline (lines 133-194).
inline_to_events(inline) ==
    CASE inline.i = "Text" -> <<Event_Text(inline.s)>>
      [] inline.i = "Emphasis" -> wrap(Tag_Emphasis, inlines_to_events(inline.inlines))
      [] inline.i = "Strong" -> wrap(Tag_Strong, inlines_to_events(inline.inlines))
      [] inline.i = "Strikethrough" ->
             wrap(Tag_Strikethrough, inlines_to_events(inline.inlines))
      [] inline.i = "Code" -> <<Event_Code(inline.s)>>
      [] inline.i = "Link" ->
             wrap(Tag_Link(inline.link_type, inline.dest_url, inline.title, inline.id),
                  inlines_to_events(inline.content_text))
      [] inline.i = "Image" ->
             wrap(Tag_Image(inline.link_type, inline.dest_url, inline.title, inline.id),
                  inlines_to_events(inline.image_description))
      [] inline.i = "SoftBreak" -> <<Event_SoftBreak>>
      [] inline.i = "HardBreak" -> <<Event_HardBreak>>

inlines_to_events(inlines) ==
    IF inlines = <<>> THEN <<>>
    ELSE inline_to_events(Head(inlines)) \o inlines_to_events(Tail(inlines))

RECURSIVE item_events_any_length(_, _)
RECURSIVE item_events_no_special_case(_, _)
\* A mutant of item_events: the special case is taken in a list of any length.
item_events_any_length(list_item_blocks, n_items) ==
    IF Len(list_item_blocks) = 1 /\ list_item_blocks[1].b = "Paragraph"
    THEN inlines_to_events(list_item_blocks[1].inlines)
    ELSE blocks_to_events(list_item_blocks)

\* A mutant of item_events: there is no special case.
item_events_no_special_case(list_item_blocks, n_items) ==
    blocks_to_events(list_item_blocks)

\* block_to_events, Block::List: what one Item wrapper holds (lines 25-46).
item_events(list_item_blocks, n_items) ==
    IF Len(list_item_blocks) = 1 /\ list_item_blocks[1].b = "Paragraph" /\ n_items = 1
    THEN inlines_to_events(list_item_blocks[1].inlines)
    ELSE blocks_to_events(list_item_blocks)

RECURSIVE items_to_events(_, _)
\* block_to_events, Block::List: `for ListItem(..) in list_items` (lines 24-47).
items_to_events(list_items_left, n_items) ==
    IF list_items_left = <<>> THEN <<>>
    ELSE wrap(Tag_Item, item_events(Head(list_items_left), n_items))
         \o items_to_events(Tail(list_items_left), n_items)

RECURSIVE cells_to_events(_)
\* block_to_events, Block::Table: the cells of a head or a row (lines 92-96, 101-105).
cells_to_events(cells) ==
    IF cells = <<>> THEN <<>>
    ELSE wrap(Tag_TableCell, inlines_to_events(Head(cells)))
         \o cells_to_events(Tail(cells))

RECURSIVE rows_to_events(_)
\* block_to_events, Block::Table: `for row in rows` (lines 99-107).
rows_to_events(rows) ==
    IF rows = <<>> THEN <<>>
    ELSE wrap(Tag_TableRow, cells_to_events(Head(rows))) \o rows_to_events(Tail(rows))

\* A mutant of code_block_to_events: a code block of no code gets no Text.
code_block_to_events_skips_empty(kind, code) ==
    wrap(Tag_CodeBlock(to_pulldown_cmark(kind)),
         IF code = "" THEN <<>> ELSE <<Event_Text(code)>>)

\* block_to_events, the Block::CodeBlock arm: the code is pushed as one Text.
code_block_to_events(kind, code) ==
    wrap(Tag_CodeBlock(to_pulldown_cmark(kind)), <<Event_Text(code)>>)

\* A mutant of first_item_number: every list is emitted as one numbered from 1.
first_item_number_one == Some(1)

\* `let first_item_number = None;`: a Block::List holds no start number.
first_item_number == None

block_to_events(block) ==
    CASE block.b = "Paragraph" -> wrap(Tag_Paragraph, inlines_to_events(block.inlines))
      [] block.b = "List" ->
             wrap(Tag_List(first_item_number),
                  items_to_events(block.items, Len(block.items)))
      [] block.b = "Heading" ->
             wrap(Tag_Heading(block.level, None), inlines_to_events(block.inlines))
      [] block.b = "CodeBlock" ->
             code_block_to_events(block.kind, block.code)
      [] block.b = "BlockQuote" ->
             wrap(Tag_BlockQuote(block.kind), blocks_to_events(block.blocks))
      [] block.b = "Table" ->
             wrap(Tag_Table(block.alignments),
                  wrap(Tag_TableHead, cells_to_events(block.headers))
                  \o rows_to_events(block.rows))
      [] block.b = "Rule" -> <<Event_Rule>>

\* `for block in blocks { block_to_events(block, events) }` (ast_to_events, and the
\* loops of block_to_events over an item's and a quote's blocks).
blocks_to_events(bs) ==
    IF bs = <<>> THEN <<>>
    ELSE block_to_events(Head(bs)) \o blocks_to_events(Tail(bs))

\* lib.rs: ast_to_events
ast_to_events(bs) == blocks_to_events(bs)

(***************************************************************************)
(* The inputs: event sequences for events_to_ast, block sequences for      *)
(* ast_to_events. Both functions are public and take any value of their    *)
(* type.                                                                   *)
(***************************************************************************)
MaxNodes == 2      \* nodes of an event tree drawn over the whole alphabet
MaxRawLen == 3     \* length of an unpaired event sequence
MaxCodeSpans == 3  \* children of a code block
MaxCols == 2       \* cells of a table head or row
MaxRows == 2       \* rows of a table
MaxItems == 2      \* items of a list
MaxTopNodes == 3   \* nodes of a top level made of inlines, paragraphs and rules

SeqsUpTo(S, n) == UNION {[1..k -> S] : k \in 0..n}

\* The closing form of a tag, as the tokenizer emits it.
ClosingForm(tag) ==
    CASE tag.t = "Heading" -> [t |-> "Heading", level |-> tag.level]
      [] tag.t = "BlockQuote" -> [t |-> "BlockQuote", kind |-> tag.kind]
      [] tag.t = "List" -> [t |-> "List", ordered |-> (tag.start # <<>>)]
      [] tag.t = "MetadataBlock" -> [t |-> "MetadataBlock", kind |-> tag.kind]
      [] OTHER -> [t |-> tag.t]

RECURSIVE Flatten(_)
\* The pre-order event sequence of a forest of UnflattenedEvent nodes.
Flatten(forest) ==
    IF forest = <<>> THEN <<>>
    ELSE LET n == Head(forest) IN
         (IF n.u = "Event" THEN <<n.event>>
          ELSE <<Event_Start(n.tag)>> \o Flatten(n.events)
               \o <<Event_End(ClosingForm(n.tag))>>)
         \o Flatten(Tail(forest))

AtomicEvents ==
    {Event_Text("a"), Event_Text("b"), Event_Code("c"), Event_SoftBreak,
     Event_HardBreak, Event_Rule, Event_Html("<p>"), Event_InlineHtml("<i>"),
     Event_InlineMath("x"), Event_DisplayMath("x"), Event_FootnoteReference("f"),
     Event_TaskListMarker(TRUE)}

Tags ==
    {Tag_Paragraph, Tag_Heading(1, None), Tag_BlockQuote(None),
     Tag_CodeBlock(md_Indented), Tag_CodeBlock(md_Fenced("rs")), Tag_HtmlBlock,
     Tag_List(None), Tag_List(Some(1)), Tag_Item, Tag_FootnoteDefinition("f"),
     Tag_Table(<<>>), Tag_TableHead, Tag_TableRow, Tag_TableCell, Tag_Emphasis,
     Tag_Strong, Tag_Strikethrough, Tag_Link("Inline", "u", "t", "i"),
     Tag_Image("Inline", "u", "t", "i"), Tag_MetadataBlock("YamlStyle")}

RECURSIVE ForestsOfSize(_)
\* The forests of exactly n nodes over AtomicEvents and Tags.
ForestsOfSize(n) ==
    IF n = 0 THEN {<<>>}
    ELSE UNION {
           {<<t>> \o f :
              t \in (IF k = 1 THEN {UnflattenedEvent_Event(e) : e \in AtomicEvents}
                     ELSE {})
                    \cup {UnflattenedEvent_Nested(tag, c) :
                            tag \in Tags, c \in ForestsOfSize(k - 1)},
              f \in ForestsOfSize(n - k)} : k \in 1..n}

GenericForests == UNION {ForestsOfSize(n) : n \in 0..MaxNodes}

\* Event sequences that need not be paired.
RawEvents ==
    {Event_Start(Tag_Emphasis), Event_End(ClosingForm(Tag_Emphasis)),
     Event_Start(Tag_Strong), Event_End(ClosingForm(Tag_Strong)), Event_Text("a")}

RawSequences == SeqsUpTo(RawEvents, MaxRawLen)

T(s) == UnflattenedEvent_Event(Event_Text(s))
P(c) == UnflattenedEvent_Nested(Tag_Paragraph, c)

\* Code blocks.
CodeChildren ==
    {T("a"), T("b"), UnflattenedEvent_Event(Event_SoftBreak),
     UnflattenedEvent_Event(Event_HardBreak), UnflattenedEvent_Event(Event_Code("c")),
     P(<<T("a")>>)}

CodeForests ==
    {<<UnflattenedEvent_Nested(Tag_CodeBlock(md_Indented), c)>> :
        c \in SeqsUpTo(CodeChildren, MaxCodeSpans)}

\* Tables, with any number of cells in the head and in each row.
CellRows ==
    {[i \in 1..n |-> UnflattenedEvent_Nested(Tag_TableCell, <<T("a")>>)] :
        n \in 0..MaxCols}

TableForests ==
    {<<UnflattenedEvent_Nested(Tag_Table(<<"Left">>),
          <<UnflattenedEvent_Nested(Tag_TableHead, h)>>
          \o [i \in 1..Len(rs) |-> UnflattenedEvent_Nested(Tag_TableRow, rs[i])])>> :
        h \in CellRows, rs \in SeqsUpTo(CellRows, MaxRows)}

MaxTableParts == 2 \* children of a table drawn from heads, rows, cells and atoms

\* What a table may be handed as a child: heads and rows, of cells or not,
\* and nodes that are neither.
TableParts ==
    LET cell == UnflattenedEvent_Nested(Tag_TableCell, <<T("a")>>)
        em == UnflattenedEvent_Nested(Tag_Emphasis, <<T("a")>>)
    IN  {UnflattenedEvent_Nested(tag, c) :
            tag \in {Tag_TableHead, Tag_TableRow},
            c \in {<<>>, <<cell>>, <<T("a")>>, <<em>>, <<cell, T("b")>>}}
        \cup {T("a"), cell, em}

\* Tables of any children.
AnyTableForests ==
    {<<UnflattenedEvent_Nested(Tag_Table(<<"Left">>), c)>> :
        c \in SeqsUpTo(TableParts, MaxTableParts)}

\* Lists: tight items of one and of more inlines, loose items, items of two
\* paragraphs, a nested list.
ItemChildren ==
    {<<>>, <<T("a")>>, <<P(<<T("a")>>)>>, <<P(<<T("a")>>), P(<<T("b")>>)>>,
     <<P(<<T("a")>>), T("b")>>,
     <<T("a"), UnflattenedEvent_Event(Event_SoftBreak),
       UnflattenedEvent_Nested(Tag_Emphasis, <<T("b")>>)>>,
     <<T("a"), UnflattenedEvent_Nested(Tag_List(None),
                  <<UnflattenedEvent_Nested(Tag_Item, <<T("b")>>)>>)>>}

ListForests ==
    {<<UnflattenedEvent_Nested(Tag_List(start),
          [i \in 1..Len(items) |-> UnflattenedEvent_Nested(Tag_Item, items[i])])>> :
        start \in {None, Some(1)}, items \in SeqsUpTo(ItemChildren, MaxItems)}

\* Tight lists of one item that holds a link or an image.
LinkItemForests ==
    {<<UnflattenedEvent_Nested(Tag_List(None),
          <<UnflattenedEvent_Nested(Tag_Item,
                <<UnflattenedEvent_Nested(tag, <<T("a")>>)>>)>>)>> :
        tag \in {Tag_Link("Inline", "u", "t", "i"), Tag_Image("Inline", "u", "t", "i")}}

\* The tags the inline resolver has no inline for.
BlockOnlyTags ==
    {Tag_Heading(1, None), Tag_BlockQuote(None), Tag_CodeBlock(md_Indented),
     Tag_HtmlBlock, Tag_List(None), Tag_Item, Tag_FootnoteDefinition("f"),
     Tag_Table(<<>>), Tag_TableHead, Tag_TableRow, Tag_TableCell,
     Tag_MetadataBlock("YamlStyle")}

\* Inline content that holds, one level down, a node of a tag that is no
\* inline.
DeepBlockForests ==
    {<<UnflattenedEvent_Nested(outer,
          <<T("a"), UnflattenedEvent_Nested(inner,
                       <<UnflattenedEvent_Nested(tag, <<T("b")>>)>>)>>)>> :
        outer \in {Tag_Paragraph, Tag_Heading(1, None)},
        inner \in {Tag_Emphasis, Tag_Paragraph, Tag_Link("Inline", "u", "t", "i"),
                   Tag_Image("Inline", "u", "t", "i")},
        tag \in BlockOnlyTags}

\* A top level of inlines, paragraphs and rules.
TopNodes ==
    {T("a"), P(<<T("b")>>), P(<<>>), UnflattenedEvent_Event(Event_Rule),
     UnflattenedEvent_Event(Event_SoftBreak),
     UnflattenedEvent_Nested(Tag_Emphasis, <<T("a")>>)}

TopForests == SeqsUpTo(TopNodes, MaxTopNodes)

EventInputs ==
    {Flatten(f) : f \in GenericForests \cup CodeForests \cup TableForests
                        \cup ListForests \cup TopForests
                        \cup AnyTableForests \cup LinkItemForests
                        \cup DeepBlockForests}
    \cup RawSequences

\* Block sequences.
SomeInlines ==
    {<<>>, <<Inline_Text("a")>>, <<Inline_Text("a"), Inline_Text("b")>>,
     <<Inline_Code("c")>>, <<Inline_SoftBreak>>, <<Inline_HardBreak>>,
     <<Inline_Emphasis(<<Inline_Text("a")>>)>>, <<Inline_Strong(<<>>)>>,
     <<Inline_Strikethrough(<<Inline_Code("c")>>)>>,
     <<Inline_Link("Inline", "u", "t", "i", <<Inline_Text("a")>>)>>,
     <<Inline_Image("Inline", "u", "t", "i", <<Inline_Text("a")>>)>>,
     <<Inline_Link("Reference", "v", "", "r",
                   <<Inline_Image("Inline", "u", "t", "i", <<>>),
                     Inline_Emphasis(<<Inline_Text("b")>>)>>)>>}

LeafBlocks ==
    {Block_Paragraph(i) : i \in SomeInlines}
    \cup {Block_Heading(1, i) : i \in SomeInlines}
    \cup {Block_CodeBlock(k, c) : k \in {CodeBlockKind_Indented, CodeBlockKind_Fenced("rs")},
                                  c \in {"", "a", "a\nb", "*a*"}}
    \cup {Block_Table(<<"Left">>, h, rs) :
            h \in SeqsUpTo({<<Inline_Text("a")>>}, MaxCols),
            rs \in SeqsUpTo(SeqsUpTo({<<Inline_Text("a")>>}, MaxCols), MaxRows)}
    \cup {Block_Rule}

SomeItems ==
    {<<>>, <<Block_Paragraph(<<Inline_Text("a")>>)>>, <<Block_Paragraph(<<>>)>>,
     <<Block_Paragraph(<<Inline_Image("Inline", "u", "t", "i", <<>>)>>)>>,
     <<Block_Paragraph(<<Inline_Text("a")>>), Block_Paragraph(<<Inline_Text("b")>>)>>,
     <<Block_Rule>>,
     <<Block_Paragraph(<<Inline_Text("a")>>),
       Block_List(<<<<Block_Paragraph(<<Inline_Text("b")>>)>>>>)>>}

ContainerBlocks ==
    {Block_List(items) : items \in SeqsUpTo(SomeItems, MaxItems)}
    \cup {Block_BlockQuote(None, bs) : bs \in SomeItems}

BlockInputs ==
    {<<>>} \cup {<<b>> : b \in LeafBlocks \cup ContainerBlocks}
    \cup {<<Block_Paragraph(<<Inline_Text("a")>>), b>> : b \in LeafBlocks}

(***************************************************************************)
(* The pipeline.                                                           *)
(***************************************************************************)
Init ==
    /\ debug_assertions \in BOOLEAN
    /\ \/ /\ mode = "events"
          /\ event_stream \in EventInputs
          /\ blocks = <<>>
          /\ pc = "unflatten"
       \/ /\ mode = "ast"
          /\ blocks \in BlockInputs
          /\ event_stream = <<>>
          /\ pc = "serialize"
    /\ pos = 0
    /\ root = <<>>
    /\ nested = <<>>
    /\ emitted = <<>>
    /\ events = <<>>
    /\ complete = <<>>
    /\ text_spans = <<>>
    /\ ast = <<>>
    /\ out = <<>>
    /\ NbIdle
    /\ WlIdle

\* The Unflattener: its two fields.
Unflattener(rt, stack) == [root |-> rt, nested |-> stack]

\* A mutant of seq_push: a node that belongs to an open frame is lost.
seq_push_loses_nested(u, node) ==
    IF u.nested # <<>>
    THEN u
    ELSE Unflattener(Append(u.root, node), u.nested)

\* Unflattener::seq, as the push of `node` onto the sequence it returns.
seq_push(u, node) ==
    IF u.nested # <<>>
    THEN Unflattener(u.root,
             [u.nested EXCEPT ![Len(u.nested)] = <<@[1], Append(@[2], node)>>])
    ELSE Unflattener(Append(u.root, node), u.nested)

\* The Event::End arm's debug_assert_eq!(tag, tag2.to_end()): whether it fails.
debug_assert_fails(tag, tag2) == debug_assertions /\ tag # to_end(tag2)

\* A mutant of handle_End: an End without an open Start is skipped.
handle_End_skips_unopened(u, tag) ==
    IF u.nested = <<>> THEN Ok([u |-> u, node |-> <<>>, depth |-> 0])
    ELSE LET tag2 == u.nested[Len(u.nested)][1]
             inner == u.nested[Len(u.nested)][2]
             popped == Unflattener(u.root, SubSeq(u.nested, 1, Len(u.nested) - 1))
             node == UnflattenedEvent_Nested(tag2, inner)
         IN  IF debug_assert_fails(tag, tag2) THEN Panic
             ELSE Ok([u |-> seq_push(popped, node), node |-> <<node>>,
                      depth |-> Len(popped.nested)])

\* A mutant of handle_End: the closed node is pushed without its children.
handle_End_drops_inner(u, tag) ==
    IF u.nested = <<>> THEN Panic
    ELSE LET tag2 == u.nested[Len(u.nested)][1]
             popped == Unflattener(u.root, SubSeq(u.nested, 1, Len(u.nested) - 1))
             node == UnflattenedEvent_Nested(tag2, <<>>)
         IN  IF debug_assert_fails(tag, tag2) THEN Panic
             ELSE Ok([u |-> seq_push(popped, node), node |-> <<node>>,
                      depth |-> Len(popped.nested)])

\* A mutant of handle_End: the closed node is pushed onto the root.
handle_End_pushes_to_root(u, tag) ==
    IF u.nested = <<>> THEN Panic
    ELSE LET tag2 == u.nested[Len(u.nested)][1]
             inner == u.nested[Len(u.nested)][2]
             popped == Unflattener(u.root, SubSeq(u.nested, 1, Len(u.nested) - 1))
             node == UnflattenedEvent_Nested(tag2, inner)
         IN  IF debug_assert_fails(tag, tag2) THEN Panic
             ELSE Ok([u |-> Unflattener(Append(popped.root, node), popped.nested),
                      node |-> <<node>>, depth |-> Len(popped.nested)])

\* Unflattener::handle_event, the Event::End(tag) arm, on the unflattener u:
\* Panic, or the unflattener afterwards with the node it pushed and the length of
\* the stack when it pushed it.
handle_End(u, tag) ==
    IF u.nested = <<>> THEN Panic   \* .expect("expected nested events")
    ELSE LET tag2 == u.nested[Len(u.nested)][1]
             inner == u.nested[Len(u.nested)][2]
             popped == Unflattener(u.root, SubSeq(u.nested, 1, Len(u.nested) - 1))
             node == UnflattenedEvent_Nested(tag2, inner)
         IN  IF debug_assert_fails(tag, tag2) THEN Panic
             ELSE Ok([u |-> seq_push(popped, node), node |-> <<node>>,
                      depth |-> Len(popped.nested)])

\* Unflattener::handle_event, Event::Start(tag)
handle_event_Start ==
    /\ pc = "unflatten"
    /\ pos < Len(event_stream)
    /\ event_stream[pos + 1].k = "Start"
    /\ nested' = Append(nested, <<event_stream[pos + 1].tag, <<>>>>)
    /\ pos' = pos + 1
    /\ UNCHANGED <<mode, debug_assertions, blocks, event_stream, root, emitted,
                   events, complete, text_spans, ast, out, pc>>
    /\ UNCHANGED <<nb_vars, wl_vars>>

\* Unflattener::handle_event, Event::End(tag)
handle_event_End ==
    /\ pc = "unflatten"
    /\ pos < Len(event_stream)
    /\ event_stream[pos + 1].k = "End"
    /\ LET r == handle_End(Unflattener(root, nested), event_stream[pos + 1].tag)
       IN  IF r.ok
           THEN /\ root' = r.v.u.root
                /\ nested' = r.v.u.nested
                /\ pos' = pos + 1
                /\ emitted' = emitted \o
                       [i \in 1..Len(r.v.node) |->
                           [node |-> r.v.node[i], end_pos |-> pos + 1,
                            depth |-> r.v.depth]]
                /\ pc' = pc
           ELSE /\ pc' = "panic"
                /\ UNCHANGED <<pos, root, nested, emitted>>
    /\ UNCHANGED <<mode, debug_assertions, blocks, event_stream, events, complete,
                   text_spans, ast, out>>
    /\ UNCHANGED <<nb_vars, wl_vars>>

\* Unflattener::handle_event, any other event
handle_event_other ==
    /\ pc = "unflatten"
    /\ pos < Len(event_stream)
    /\ event_stream[pos + 1].k \notin {"Start", "End"}
    /\ LET pushed == seq_push(Unflattener(root, nested),
                              UnflattenedEvent_Event(event_stream[pos + 1]))
       IN  /\ nested' = pushed.nested
           /\ root' = pushed.root
    /\ pos' = pos + 1
    /\ UNCHANGED <<mode, debug_assertions, blocks, event_stream, emitted, events,
                   complete, text_spans, ast, out, pc>>
    /\ UNCHANGED <<nb_vars, wl_vars>>

\* A mutant of finish_assert_fails: the assertion is gone.
finish_assert_removed(stack) == FALSE

\* Unflattener::finish: whether assert!(nested.is_empty()) fails.
finish_assert_fails(stack) == stack # <<>>

\* Unflattener::finish, and the call of ast_events_to_ast on what it returns.
finish ==
    /\ pc = "unflatten"
    /\ pos = Len(event_stream)
    /\ IF finish_assert_fails(nested)
       THEN /\ pc' = "panic"
            /\ UNCHANGED events
       ELSE /\ pc' = "build"
            /\ events' = root
    /\ UNCHANGED <<mode, debug_assertions, blocks, event_stream, pos, root, nested,
                   emitted, complete, text_spans, ast, out>>
    /\ UNCHANGED <<nb_vars, wl_vars>>

\* ast_events_to_ast (the call made by events_to_ast): one iteration of its loop.
build_event ==
    /\ pc = "build"
    /\ events # <<>>
    /\ LET r == ast_events_to_ast_event(BuilderState(complete, text_spans), Head(events))
       IN  IF r.ok
           THEN /\ complete' = r.v.complete
                /\ text_spans' = r.v.text_spans
                /\ events' = Tail(events)
                /\ pc' = pc
           ELSE /\ pc' = "panic"
                /\ UNCHANGED <<complete, text_spans, events>>
    /\ UNCHANGED <<mode, debug_assertions, blocks, event_stream, pos, root, nested,
                   emitted, ast, out>>
    /\ UNCHANGED <<nb_vars, wl_vars>>

\* ast_events_to_ast (the call made by events_to_ast): the end of its loop.
build_return ==
    /\ pc = "build"
    /\ events = <<>>
    /\ ast' = finish_blocks(BuilderState(complete, text_spans))
    /\ IF mode = "events"
       THEN /\ blocks' = ast'
            /\ pc' = "serialize"
       ELSE /\ blocks' = blocks
            /\ pc' = "done"
    /\ UNCHANGED <<mode, debug_assertions, event_stream, pos, root, nested, emitted,
                   events, complete, text_spans, out>>
    /\ UNCHANGED <<nb_vars, wl_vars>>

\* ast_to_events
serialize ==
    /\ pc = "serialize"
    /\ out' = ast_to_events(blocks)
    /\ IF mode = "ast"
       THEN /\ event_stream' = out'
            /\ pc' = "unflatten"
       ELSE /\ event_stream' = event_stream
            /\ pc' = "done"
    /\ UNCHANGED <<mode, debug_assertions, blocks, pos, root, nested, emitted,
                   events, complete, text_spans, ast>>
    /\ UNCHANGED <<nb_vars, wl_vars>>

Next ==
    \/ handle_event_Start
    \/ handle_event_End
    \/ handle_event_other
    \/ finish
    \/ build_event
    \/ build_return
    \/ serialize

Spec == Init /\ [][Next]_vars

(***************************************************************************)
(* wolfram_expr::Expr, by shape: a normal expression is its head (a        *)
(* symbol) and its arguments; a real is the text of its literal. A symbol  *)
(* is the parts of its name that the context mark separates.               *)
(***************************************************************************)
Symbol(parts) == [parts |-> parts]
Expr_normal(head, args) == [e |-> "Normal", head |-> head, args |-> args]
Expr_string(s) == [e |-> "String", s |-> s]
Expr_symbol(name) == [e |-> "Symbol", name |-> name]
Expr_integer(n) == [e |-> "Integer", n |-> n]
Expr_real(r) == [e |-> "Real", r |-> r]
Expr_list(elements) == Expr_normal(Symbol(<<"System", "List">>), elements)
Expr_rule(lhs, rhs) == Expr_normal(Symbol(<<"System", "Rule">>), <<lhs, rhs>>)

(***************************************************************************)
(* md2nb, nb.rs: the conversion of a Block to notebook cells.              *)
(***************************************************************************)
Options(create_external_language_cells) ==
    [create_external_language_cells |-> create_external_language_cells]

State(list_depth) == [list_depth |-> list_depth]

RECURSIVE text_to_boxes(_)
RECURSIVE text_to_boxes_loop(_, _)

\* text_to_boxes, the match on one span (lines 370-447): the box of the span.
text_to_boxes_span(span) ==
    CASE span.i = "Text" -> Ok(Expr_string(span.s))
      [] span.i = "Emphasis" ->
             LET inner == text_to_boxes(span.inlines) IN
             IF ~inner.ok THEN Panic
             ELSE Ok(Expr_normal(Symbol(<<"System", "StyleBox">>),
                        <<inner.v, Expr_rule(Expr_symbol(Symbol(<<"System", "FontSlant">>)),
                                             Expr_symbol(Symbol(<<"System", "Italic">>)))>>))
      [] span.i = "Strong" ->
             LET inner == text_to_boxes(span.inlines) IN
             IF ~inner.ok THEN Panic
             ELSE Ok(Expr_normal(Symbol(<<"System", "StyleBox">>),
                        <<inner.v, Expr_rule(Expr_symbol(Symbol(<<"System", "FontWeight">>)),
                                             Expr_symbol(Symbol(<<"System", "Bold">>)))>>))
      [] span.i = "Strikethrough" -> Panic   \* todo!("strikethrough text")
      [] span.i = "Code" ->
             Ok(Expr_normal(Symbol(<<"System", "StyleBox">>), <<Expr_string(span.s), Expr_string("Code")>>))
      [] span.i = "Link" ->
             LET inner == text_to_boxes(span.content_text) IN
             IF ~inner.ok THEN Panic
             ELSE Ok(Expr_normal(Symbol(<<"System", "ButtonBox">>),
                        <<inner.v,
                          Expr_rule(Expr_symbol(Symbol(<<"System", "BaseStyle">>)),
                                    Expr_string("Hyperlink")),
                          Expr_rule(Expr_symbol(Symbol(<<"System", "ButtonData">>)),
                                    Expr_list(<<Expr_normal(Symbol(<<"System", "URL">>),
                                                    <<Expr_string(span.dest_url)>>),
                                                Expr_symbol(Symbol(<<"System", "None">>))>>)),
                          Expr_rule(Expr_symbol(Symbol(<<"System", "ButtonNote">>)),
                                    Expr_string(span.dest_url))>>))
      [] span.i = "Image" -> Panic           \* todo!("Support Image link ...")
      [] span.i = "SoftBreak" -> Ok(Expr_string(" "))
      [] span.i = "HardBreak" -> Ok(Expr_string("\n"))

text_to_boxes_loop(text, row) ==
    IF text = <<>> THEN Ok(row)
    ELSE LET expr == text_to_boxes_span(Head(text)) IN
         IF ~expr.ok THEN Panic
         ELSE text_to_boxes_loop(Tail(text), Append(row, expr.v))

\* text_to_boxes: a RowBox[{...}] expression.
text_to_boxes(text) ==
    LET row == text_to_boxes_loop(text, <<>>) IN
    IF ~row.ok THEN Panic
    ELSE Ok(Expr_normal(Symbol(<<"System", "RowBox">>), <<Expr_list(row.v)>>))

\* inlines_to_text_data: a TextData[{...}] expression.
inlines_to_text_data(inlines) ==
    LET boxes == text_to_boxes(inlines) IN
    IF ~boxes.ok THEN Panic
    ELSE Ok(Expr_normal(Symbol(<<"System", "TextData">>), <<boxes.v>>))

\* A Cell[content, style] expression, where the content may have failed.
text_cell(content, style) ==
    IF ~content.ok THEN Panic
    ELSE Ok(Expr_normal(Symbol(<<"System", "Cell">>), <<content.v, Expr_string(style)>>))

\* block_to_cells_, Block::Heading: the style of a level (lines 27-34).
heading_style(level) ==
    CASE level = 1 -> "Title"
      [] level = 2 -> "Chapter"
      [] level = 3 -> "Section"
      [] level = 4 -> "Subsection"
      [] level = 5 -> "Subsubsection"
      [] level = 6 -> "Subsubsubsection"

\* str::to_lowercase, on the info strings of the inputs.
to_lowercase(s) ==
    CASE s = "Python" -> "python"
      [] s = "SH" -> "sh"
      [] OTHER -> s

\* CodeBlockKind::info_string
info_string(kind) == IF kind.kind = "Fenced" THEN Some(kind.info_string) ELSE None

\* block_to_cells_, Block::CodeBlock: external_language (lines 64-80).
external_language(kind) ==
    IF info_string(kind) = None THEN None
    ELSE LET s == to_lowercase(info_string(kind)[1]) IN
         CASE s = "python" -> Some("Python")
           [] s \in {"shell", "bash", "sh", "zsh"} -> Some("Shell")
           [] s = "julia" -> Some("Julia")
           [] s = "r" -> Some("R")
           [] s = "octave" -> Some("Octave")
           [] s = "java" -> Some("Java")
           [] s \in {"node", "nodejs", "js", "javascript"} -> Some("NodeJS")
           [] s = "jupyter" -> Some("Jupyter")
           [] s = "sql" -> Some("SQL")
           [] s = "sql-jdbc" -> Some("SQL-JDBC")
           [] OTHER -> None

\* block_to_cells_, Block::CodeBlock (lines 59-101).
code_block_cells(opts, kind, code_text) ==
    LET lang == external_language(kind) IN
    IF lang # None /\ opts.create_external_language_cells
    THEN <<Expr_normal(Symbol(<<"System", "Cell">>),
              <<Expr_string(code_text), Expr_string("ExternalLanguage"),
                Expr_rule(Expr_symbol(Symbol(<<"System", "CellEvaluationLanguage">>)),
                          Expr_string(lang[1]))>>)>>
    ELSE <<Expr_normal(Symbol(<<"System", "Cell">>),
              <<Expr_string(code_text), Expr_string("Program")>>)>>

\* block_to_cells_, Block::BlockQuote: the cell that frames the cells of the
\* quoted blocks (lines 114-154).
quote_cell(quote_cells) ==
    Expr_normal(Symbol(<<"System", "Cell">>),
        <<Expr_normal(Symbol(<<"System", "BoxData">>), <<Expr_list(quote_cells)>>),
          Expr_string("Text"),
          Expr_rule(Expr_symbol(Symbol(<<"System", "CellFrame">>)),
                    Expr_list(<<Expr_list(<<Expr_integer(4), Expr_integer(0)>>),
                                Expr_list(<<Expr_integer(0), Expr_integer(0)>>)>>)),
          Expr_rule(Expr_symbol(Symbol(<<"System", "CellFrameColor">>)),
                    Expr_normal(Symbol(<<"System", "GrayLevel">>), <<Expr_real("0.8")>>)),
          Expr_rule(Expr_symbol(Symbol(<<"System", "Background">>)),
                    Expr_normal(Symbol(<<"System", "GrayLevel">>), <<Expr_real("0.95")>>))>>)

RECURSIVE table_row_cells(_, _)
\* block_to_cells_, Block::Table: the cells of one row, each of a style.
table_row_cells(row_content, style) ==
    IF row_content = <<>> THEN Ok(<<>>)
    ELSE LET cell == text_cell(inlines_to_text_data(Head(row_content)), style)
             rest == table_row_cells(Tail(row_content), style)
         IN  IF ~cell.ok \/ ~rest.ok THEN Panic ELSE Ok(<<cell.v>> \o rest.v)

RECURSIVE table_grid_rows(_)
table_grid_rows(rows) ==
    IF rows = <<>> THEN Ok(<<>>)
    ELSE LET row == table_row_cells(Head(rows), "Text")
             rest == table_grid_rows(Tail(rows))
         IN  IF ~row.ok \/ ~rest.ok THEN Panic ELSE Ok(<<Expr_list(row.v)>> \o rest.v)

\* block_to_cells_, Block::Table (lines 156-230).
table_to_cells(headers, rows) ==
    LET header_row == table_row_cells(headers, "Subsubsubsection")
        grid_rows == table_grid_rows(rows)
        automatic == Expr_list(<<Expr_list(<<Expr_symbol(Symbol(<<"System", "Automatic">>))>>)>>)
    IN  IF ~header_row.ok \/ ~grid_rows.ok THEN Panic
        ELSE Ok(<<Expr_normal(Symbol(<<"System", "Cell">>),
                    <<Expr_normal(Symbol(<<"System", "BoxData">>),
                          <<Expr_normal(Symbol(<<"System", "GridBox">>),
                                <<Expr_list(<<Expr_list(header_row.v)>> \o grid_rows.v),
                                  Expr_rule(Expr_symbol(Symbol(<<"System", "GridBoxItemSize">>)),
                                      Expr_list(<<Expr_rule(Expr_string("Columns"),
                                                            automatic),
                                                  Expr_rule(Expr_string("Rows"),
                                                            automatic)>>))>>)>>),
                      Expr_string("Text")>>)>>)

\* block_to_cells_, Block::Rule (lines 231-304).
rule_cells ==
    <<Expr_normal(Symbol(<<"System", "Cell">>),
        <<Expr_string(""), Expr_string("Text"),
          Expr_rule(Expr_symbol(Symbol(<<"System", "Editable">>)), Expr_symbol(Symbol(<<"System", "False">>))),
          Expr_rule(Expr_symbol(Symbol(<<"System", "CellFrame">>)),
                    Expr_list(<<Expr_list(<<Expr_integer(0), Expr_integer(0)>>),
                                Expr_list(<<Expr_integer(0), Expr_integer(3)>>)>>)),
          Expr_rule(Expr_symbol(Symbol(<<"System", "ShowCellBracket">>)), Expr_symbol(Symbol(<<"System", "False">>))),
          Expr_rule(Expr_symbol(Symbol(<<"System", "CellMargins">>)),
                    Expr_list(<<Expr_list(<<Expr_integer(0), Expr_integer(0)>>),
                                Expr_list(<<Expr_integer(1), Expr_integer(1)>>)>>)),
          Expr_rule(Expr_symbol(Symbol(<<"System", "CellElementSpacings">>)),
                    Expr_list(<<Expr_rule(Expr_string("CellMinHeight"),
                                          Expr_integer(1))>>)),
          Expr_rule(Expr_symbol(Symbol(<<"System", "CellFrameMargins">>)), Expr_integer(0)),
          Expr_rule(Expr_symbol(Symbol(<<"System", "CellFrameColor">>)),
                    Expr_normal(Symbol(<<"System", "GrayLevel">>), <<Expr_real("0.75")>>)),
          Expr_rule(Expr_symbol(Symbol(<<"System", "CellSize">>)),
                    Expr_list(<<Expr_symbol(Symbol(<<"System", "Inherited">>)), Expr_integer(5)>>))>>)>>

\* A call or a loop in progress: `fn` names it, `rest` is what it has not yet
\* visited, `cells` is what it has gathered.
Frame(fn, rest, cells) == [fn |-> fn, rest |-> rest, cells |-> cells]

\* `cells.extend(..)` on the innermost call or loop in progress.
extend_cells(stack, cells) ==
    IF stack = <<>> THEN stack
    ELSE [stack EXCEPT ![Len(stack)].cells = @ \o cells]

\* A mutant of list_depth_incremented: the depth is not counted.
list_depth_not_incremented(states) == states

\* `state.list_depth += 1` on the State of the innermost block_to_cells call.
\* list_depth is a u8; the lists of the inputs nest far less than 255 deep.
list_depth_incremented(states) ==
    [states EXCEPT ![Len(states)] = State(@.list_depth + 1)]

\* `state.list_depth -= 1`
list_depth_decremented(states) ==
    [states EXCEPT ![Len(states)] = State(@.list_depth - 1)]

\* A mutant of item_style: a fourth level is styled as the third.
item_style_any_depth(list_depth) ==
    CASE list_depth = 0 -> None
      [] list_depth = 1 -> Some("Item")
      [] list_depth = 2 -> Some("Subitem")
      [] OTHER -> Some("Subsubitem")

\* list_item_to_cells, Block::Paragraph: the style at a depth (lines 317-323),
\* None where the match fails.
item_style(list_depth) ==
    CASE list_depth = 0 -> None            \* panic!()
      [] list_depth = 1 -> Some("Item")
      [] list_depth = 2 -> Some("Subitem")
      [] list_depth = 3 -> Some("Subsubitem")
      [] OTHER -> None                     \* todo!("return list depth error")

\* block_to_cells_, the arms that return without a loop over blocks or items.
leaf_cells(opts, block) ==
    CASE block.b = "Heading" ->
             LET cell == text_cell(inlines_to_text_data(block.inlines),
                                   heading_style(block.level))
             IN  IF cell.ok THEN Ok(<<cell.v>>) ELSE Panic
      [] block.b = "Paragraph" ->
             LET cell == text_cell(inlines_to_text_data(block.inlines), "Text")
             IN  IF cell.ok THEN Ok(<<cell.v>>) ELSE Panic
      [] block.b = "CodeBlock" -> Ok(code_block_cells(opts, block.kind, block.code))
      [] block.b = "Table" -> table_to_cells(block.headers, block.rows)
      [] block.b = "Rule" -> Ok(rule_cells)

nb_panics ==
    /\ nb_pc' = "panic"
    /\ UNCHANGED <<nb_state, nb_stack, nb_cells>>

\* The innermost call or loop in progress.
TopFrame == nb_stack[Len(nb_stack)]

\* The calls and loops in progress around the innermost.
Callers == SubSeq(nb_stack, 1, Len(nb_stack) - 1)

\* block_to_cells_: the match on the block (lines 26-305). The cells of a
\* list or a quote are gathered by a loop; the other arms return their cells.
block_to_cells_ ==
    /\ nb_pc = "run"
    /\ TopFrame.fn = "block_to_cells"
    /\ TopFrame.rest # <<>>
    /\ LET block == TopFrame.rest[1]
           called == [nb_stack EXCEPT ![Len(nb_stack)].rest = <<>>]
       IN  CASE block.b = "List" ->
                    /\ nb_state' = list_depth_incremented(nb_state)
                    /\ nb_stack' = Append(called, Frame("List", block.items, <<>>))
                    /\ UNCHANGED <<nb_cells, nb_pc>>
             [] block.b = "BlockQuote" ->
                    /\ nb_stack' = Append(called, Frame("BlockQuote", block.blocks, <<>>))
                    /\ UNCHANGED <<nb_state, nb_cells, nb_pc>>
             [] OTHER ->
                    LET cells == leaf_cells(nb_opts, block) IN
                    IF cells.ok
                    THEN /\ nb_stack' = extend_cells(called, cells.v)
                         /\ UNCHANGED <<nb_state, nb_cells, nb_pc>>
                    ELSE nb_panics
    /\ UNCHANGED <<nb_block, nb_opts, md_vars, wl_vars>>

\* The return of block_to_cells: its State is dropped, and its cells go to the
\* loop over the blocks of the quote that called it or, where there is none,
\* to the caller of the conversion.
block_to_cells_return ==
    /\ nb_pc = "run"
    /\ TopFrame.fn = "block_to_cells"
    /\ TopFrame.rest = <<>>
    /\ nb_state' = SubSeq(nb_state, 1, Len(nb_state) - 1)
    /\ nb_stack' = extend_cells(Callers, TopFrame.cells)
    /\ IF Callers = <<>>
       THEN nb_cells' = TopFrame.cells /\ nb_pc' = "done"
       ELSE UNCHANGED <<nb_cells, nb_pc>>
    /\ UNCHANGED <<nb_block, nb_opts, md_vars, wl_vars>>

\* `for item in items { list_cells.extend(list_item_to_cells(state, item)) }`:
\* the call for the next item.
List_next_item ==
    /\ nb_pc = "run"
    /\ TopFrame.fn = "List"
    /\ TopFrame.rest # <<>>
    /\ nb_stack' = Append([nb_stack EXCEPT ![Len(nb_stack)].rest = Tail(@)],
                          Frame("list_item_to_cells", Head(TopFrame.rest), <<>>))
    /\ UNCHANGED <<nb_block, nb_opts, nb_state, nb_cells, nb_pc, md_vars, wl_vars>>

\* The end of the loop over the items of a list, in block_to_cells_ (lines
\* 55-57) and in list_item_to_cells (lines 338-340): the depth is counted down
\* and the cells of the list go to the caller.
List_end ==
    /\ nb_pc = "run"
    /\ TopFrame.fn = "List"
    /\ TopFrame.rest = <<>>
    /\ nb_state' = list_depth_decremented(nb_state)
    /\ nb_stack' = extend_cells(Callers, TopFrame.cells)
    /\ UNCHANGED <<nb_block, nb_opts, nb_cells, nb_pc, md_vars, wl_vars>>

\* list_item_to_cells: one iteration of the loop over the blocks of the item
\* (lines 314-356).
list_item_to_cells_block ==
    /\ nb_pc = "run"
    /\ TopFrame.fn = "list_item_to_cells"
    /\ TopFrame.rest # <<>>
    /\ LET block == Head(TopFrame.rest)
           visited == [nb_stack EXCEPT ![Len(nb_stack)].rest = Tail(@)]
       IN  CASE block.b = "Paragraph" ->
                    LET style == item_style(nb_state[Len(nb_state)].list_depth)
                        cell == IF style = None THEN Panic
                                ELSE text_cell(inlines_to_text_data(block.inlines),
                                               style[1])
                    IN  IF cell.ok
                        THEN /\ nb_stack' = extend_cells(visited, <<cell.v>>)
                             /\ UNCHANGED <<nb_state, nb_cells, nb_pc>>
                        ELSE nb_panics
             [] block.b = "List" ->
                    /\ nb_state' = list_depth_incremented(nb_state)
                    /\ nb_stack' = Append(visited, Frame("List", block.items, <<>>))
                    /\ UNCHANGED <<nb_cells, nb_pc>>
             [] OTHER -> nb_panics   \* todo!("handle markdown ... inside list item")
    /\ UNCHANGED <<nb_block, nb_opts, md_vars, wl_vars>>

\* list_item_to_cells: the end of the loop, and the return of `cells` to the
\* loop over the items.
list_item_to_cells_return ==
    /\ nb_pc = "run"
    /\ TopFrame.fn = "list_item_to_cells"
    /\ TopFrame.rest = <<>>
    /\ nb_stack' = extend_cells(Callers, TopFrame.cells)
    /\ UNCHANGED <<nb_block, nb_opts, nb_state, nb_cells, nb_pc, md_vars, wl_vars>>

\* block_to_cells_, Block::BlockQuote: `flat_map(|block| block_to_cells(block,
\* opts))`, the call for the next block, with a State of its own.
BlockQuote_next_block ==
    /\ nb_pc = "run"
    /\ TopFrame.fn = "BlockQuote"
    /\ TopFrame.rest # <<>>
    /\ nb_state' = Append(nb_state, State(0))
    /\ nb_stack' = Append([nb_stack EXCEPT ![Len(nb_stack)].rest = Tail(@)],
                          Frame("block_to_cells", <<Head(TopFrame.rest)>>, <<>>))
    /\ UNCHANGED <<nb_block, nb_opts, nb_cells, nb_pc, md_vars, wl_vars>>

\* block_to_cells_, Block::BlockQuote: the end of the loop; the cells of the
\* quoted blocks are framed by one cell.
BlockQuote_end ==
    /\ nb_pc = "run"
    /\ TopFrame.fn = "BlockQuote"
    /\ TopFrame.rest = <<>>
    /\ nb_stack' = extend_cells(Callers, <<quote_cell(TopFrame.cells)>>)
    /\ UNCHANGED <<nb_block, nb_opts, nb_state, nb_cells, nb_pc, md_vars, wl_vars>>

(***************************************************************************)
(* The inputs of block_to_cells.                                           *)
(***************************************************************************)
MaxListDepth == 4   \* lists inside lists
MaxQuoteDepth == 2  \* quotes inside quotes

NbParagraphs ==
    {Block_Paragraph(<<Inline_Text("a")>>),
     Block_Paragraph(<<Inline_Text("a"), Inline_Strong(<<Inline_Code("c")>>)>>)}

RECURSIVE NbLists(_)
\* The items of lists that nest up to d deep.
NbItems(d) ==
    {<<>>} \cup {<<p>> : p \in NbParagraphs}
    \cup (IF d = 0 THEN {}
          ELSE {<<l>> : l \in NbLists(d)}
               \cup {<<Block_Paragraph(<<Inline_Text("a")>>), l>> : l \in NbLists(d)}
               \cup {<<l, Block_Paragraph(<<Inline_Text("b")>>)>> : l \in NbLists(d)})

\* Lists of one item that nest up to d deep.
NbLists(d) == {Block_List(<<item>>) : item \in NbItems(d - 1)}

\* Blocks that no list and no quote holds.
NbLeafBlocks ==
    {Block_Heading(level, <<Inline_Text("a")>>) : level \in 1..6}
    \cup NbParagraphs
    \cup {Block_Paragraph(i) :
            i \in {<<>>, <<Inline_Strikethrough(<<>>)>>,
                   <<Inline_Emphasis(<<Inline_Image("Inline", "u", "t", "i", <<>>)>>)>>,
                   <<Inline_Link("Inline", "u", "t", "i", <<Inline_Text("a")>>),
                     Inline_SoftBreak, Inline_HardBreak>>}}
    \cup {Block_CodeBlock(k, "a") :
            k \in {CodeBlockKind_Indented, CodeBlockKind_Fenced("Python"),
                   CodeBlockKind_Fenced("SH"), CodeBlockKind_Fenced("rs")}}
    \cup {Block_Table(<<"Left">>, <<<<Inline_Text("a")>>>>, rs) :
            rs \in {<<>>, <<<<<<Inline_Text("b")>>>>>>,
                    <<<<<<Inline_Strikethrough(<<>>)>>>>>>}}
    \cup {Block_Rule}

\* Lists whose items hold what list_item_to_cells has no cells for.
NbOtherLists ==
    {Block_List(<<<<b>>>>) :
        b \in {Block_Rule, Block_Heading(1, <<>>), Block_BlockQuote(None, <<>>),
               Block_CodeBlock(CodeBlockKind_Indented, "a"),
               Block_Table(<<>>, <<>>, <<>>),
               Block_Paragraph(<<Inline_Strikethrough(<<>>)>>)}}
    \cup {Block_List(<<i1, i2>>) : i1, i2 \in NbItems(1)}

RECURSIVE NbQuotes(_)
\* Quotes that nest up to d deep.
NbQuotes(d) ==
    IF d = 0 THEN {}
    ELSE {Block_BlockQuote(None, bs) :
            bs \in {<<>>} \cup {<<b>> : b \in NbLists(2) \cup NbQuotes(d - 1)}
                   \cup {<<Block_Rule, b>> : b \in NbLists(1)}
                   \cup {<<b, Block_Paragraph(<<Inline_Text("a")>>)>> : b \in NbLists(1)}}

NbInputs == NbLeafBlocks \cup NbLists(MaxListDepth) \cup NbOtherLists
            \cup NbQuotes(MaxQuoteDepth)

\* block_to_cells: the State is made and block_to_cells_ is called.
NbInit ==
    /\ nb_block \in NbInputs
    /\ nb_opts \in {Options(c) : c \in BOOLEAN}
    /\ nb_state = <<State(0)>>
    /\ nb_stack = <<Frame("block_to_cells", <<nb_block>>, <<>>)>>
    /\ nb_cells = <<>>
    /\ nb_pc = "run"
    /\ MdIdle
    /\ WlIdle

NbNext ==
    \/ block_to_cells_
    \/ block_to_cells_return
    \/ List_next_item
    \/ List_end
    \/ list_item_to_cells_block
    \/ list_item_to_cells_return
    \/ BlockQuote_next_block
    \/ BlockQuote_end

NbSpec == NbInit /\ [][NbNext]_vars

(***************************************************************************)
(* wolfram-markdown-link, lib.rs and from_expr_utils.rs: the conversion of *)
(* a Block to an expression and back. A function that returns a Result     *)
(* returns Ok(v) or Err(message); it may also panic.                       *)
(***************************************************************************)
Err(message) == [ok |-> FALSE, err |-> message]

\* const MarkdownElement
MarkdownElement == Symbol(<<"ConnorGray", "Markdown", "MarkdownElement">>)

RECURSIVE inlines_to_expr(_)
RECURSIVE block_to_expr(_)
RECURSIVE blocks_to_exprs(_)

\* inline_to_expr (lines 133-173); it has no arm for an Inline::Image.
inline_to_expr(span) ==
    Expr_normal(MarkdownElement,
        CASE span.i = "Text" -> <<Expr_string("Text"), Expr_string(span.s)>>
          [] span.i = "Emphasis" ->
                 <<Expr_string("Emphasis"), inlines_to_expr(span.inlines)>>
          [] span.i = "Strong" ->
                 <<Expr_string("Strong"), inlines_to_expr(span.inlines)>>
          [] span.i = "Strikethrough" ->
                 <<Expr_string("Strikethrough"), inlines_to_expr(span.inlines)>>
          [] span.i = "Code" -> <<Expr_string("Code"), Expr_string(span.s)>>
          [] span.i = "Link" ->
                 <<Expr_string("Hyperlink"), inlines_to_expr(span.content_text),
                   Expr_string(span.dest_url)>>
          [] span.i = "SoftBreak" -> <<Expr_string("SoftBreak")>>
          [] span.i = "HardBreak" -> <<Expr_string("HardBreak")>>)

\* inlines_to_expr
inlines_to_expr(inlines) ==
    Expr_list([i \in 1..Len(inlines) |-> inline_to_expr(inlines[i])])

\* `blocks.iter().map(block_to_expr).collect()`, which fails where a block does.
blocks_to_exprs(bs) ==
    IF bs = <<>> THEN Ok(<<>>)
    ELSE LET first == block_to_expr(Head(bs)) IN
         IF ~first.ok THEN Panic
         ELSE LET rest == blocks_to_exprs(Tail(bs)) IN
              IF ~rest.ok THEN Panic ELSE Ok(<<first.v>> \o rest.v)

\* list_item_to_expr
list_item_to_expr(item) ==
    LET exprs == blocks_to_exprs(item) IN
    IF ~exprs.ok THEN Panic
    ELSE Ok(Expr_normal(MarkdownElement,
                        <<Expr_string("ListItem"), Expr_list(exprs.v)>>))

RECURSIVE list_items_to_exprs(_)
\* `items.iter().map(list_item_to_expr).collect()`
list_items_to_exprs(items) ==
    IF items = <<>> THEN Ok(<<>>)
    ELSE LET first == list_item_to_expr(Head(items)) IN
         IF ~first.ok THEN Panic
         ELSE LET rest == list_items_to_exprs(Tail(items)) IN
              IF ~rest.ok THEN Panic ELSE Ok(<<first.v>> \o rest.v)

\* block_to_expr, Block::Heading: the integer of a level (lines 73-80).
level_to_integer(level) ==
    CASE level = 1 -> 1
      [] level = 2 -> 2
      [] level = 3 -> 3
      [] level = 4 -> 4
      [] level = 5 -> 5
      [] level = 6 -> 6

\* block_to_expr (lines 57-124)
block_to_expr(block) ==
    CASE block.b = "Paragraph" ->
             Ok(Expr_normal(MarkdownElement,
                    <<Expr_string("Paragraph"), inlines_to_expr(block.inlines)>>))
      [] block.b = "List" ->
             LET exprs == list_items_to_exprs(block.items) IN
             IF ~exprs.ok THEN Panic
             ELSE Ok(Expr_normal(MarkdownElement,
                        <<Expr_string("List"), Expr_list(exprs.v)>>))
      [] block.b = "Heading" ->
             Ok(Expr_normal(MarkdownElement,
                    <<Expr_string("Heading"), Expr_integer(level_to_integer(block.level)),
                      inlines_to_expr(block.inlines)>>))
      [] block.b = "CodeBlock" ->
             Ok(Expr_normal(MarkdownElement,
                    <<Expr_string("CodeBlock"),
                      IF info_string(block.kind) # None
                      THEN Expr_string(info_string(block.kind)[1])
                      ELSE Expr_symbol(Symbol(<<"System", "None">>)),
                      Expr_string(block.code)>>))
      [] block.b = "BlockQuote" ->
             LET exprs == blocks_to_exprs(block.blocks) IN
             IF ~exprs.ok THEN Panic
             ELSE Ok(Expr_normal(MarkdownElement,
                        <<Expr_string("BlockQuote"), Expr_list(exprs.v)>>))
      [] block.b = "Table" -> Panic   \* todo!()
      [] block.b = "Rule" ->
             Ok(Expr_normal(MarkdownElement, <<Expr_string("ThematicBreak")>>))

\* from_expr_utils.rs: try_headed
try_headed(e, head) ==
    IF e.e # "Normal" THEN Err("expected head[..]")
    ELSE IF e.head # head THEN Err("expected head[..]")
    ELSE Ok(e.args)

RECURSIVE parse_expr_inlines(_)
RECURSIVE parse_expr_inlines_loop(_, _)

\* parse_expr_to_inline (lines 244-283)
parse_expr_to_inline(expr) ==
    LET element_args == try_headed(expr, MarkdownElement) IN
    IF ~element_args.ok THEN element_args
    ELSE IF Len(element_args.v) < 2
    THEN Err("expected MarkdownElement[..] to have at least 2 args")
    ELSE LET kind == element_args.v[1]
             rest == Tail(element_args.v)
         IN  IF kind.e # "String"
             THEN Err("expected MarkdownElement[...] first arg to be string")
             ELSE CASE kind.s = "Text" /\ Len(rest) = 1 ->
                           IF rest[1].e # "String"
                           THEN Err("expected 2nd argument to be a string")
                           ELSE Ok(Inline_Text(rest[1].s))
                    [] kind.s = "Strong" /\ Len(rest) = 1 ->
                           LET inlines == parse_expr_inlines(rest[1]) IN
                           IF ~inlines.ok THEN inlines
                           ELSE Ok(Inline_Strong(inlines.v))
                    [] OTHER -> Panic   \* panic!("unrecognized inline ...")

\* `inlines.iter().map(parse_expr_to_inline).collect::<Result<_, _>>()?`: the
\* elements are parsed in order, up to the first that is an Err.
parse_expr_inlines_loop(exprs, inlines) ==
    IF exprs = <<>> THEN Ok(inlines)
    ELSE LET inline == parse_expr_to_inline(Head(exprs)) IN
         IF ~inline.ok THEN inline
         ELSE parse_expr_inlines_loop(Tail(exprs), Append(inlines, inline.v))

\* parse_expr_inlines (lines 285-295)
parse_expr_inlines(inlines) ==
    LET elements == try_headed(inlines, Symbol(<<"System", "List">>)) IN
    IF ~elements.ok THEN Panic   \* .expect("expected 1st argument to be a list")
    ELSE parse_expr_inlines_loop(elements.v, <<>>)

\* parse_expr_to_block, ("Heading", [level, inlines]): the HeadingLevel of the
\* number (lines 224-232); each of the six arms gives HeadingLevel::H1.
heading_level(level) ==
    IF level.e = "Integer" /\ level.n \in 1..6 THEN Ok(1)
    ELSE Err("unsupported heading level value")

\* parse_expr_to_block (lines 200-242)
parse_expr_to_block(expr) ==
    LET element_args == try_headed(expr, MarkdownElement) IN
    IF ~element_args.ok THEN element_args
    ELSE IF Len(element_args.v) < 2
    THEN Err("expected MarkdownElement[..] to have at least 2 args")
    ELSE LET kind == element_args.v[1]
             rest == Tail(element_args.v)
         IN  IF kind.e # "String"
             THEN Err("expected MarkdownElement[...] first arg to be string")
             ELSE CASE kind.s = "Paragraph" /\ Len(rest) = 1 ->
                           LET inlines == parse_expr_inlines(rest[1]) IN
                           IF ~inlines.ok THEN inlines
                           ELSE Ok(Block_Paragraph(inlines.v))
                    [] kind.s = "Heading" /\ Len(rest) = 2 ->
                           LET level == heading_level(rest[1]) IN
                           IF ~level.ok THEN level
                           ELSE LET inlines == parse_expr_inlines(rest[2]) IN
                                IF ~inlines.ok THEN inlines
                                ELSE Ok(Block_Heading(level.v, inlines.v))
                    [] OTHER -> Panic   \* panic!("unrecognized block ...")

(***************************************************************************)
(* The inputs of block_to_expr and parse_expr_to_block.                    *)
(***************************************************************************)
WlInlines ==
    {<<>>, <<Inline_Text("a")>>, <<Inline_Text("a"), Inline_Text("b")>>,
     <<Inline_Strong(<<>>)>>, <<Inline_Strong(<<Inline_Text("a")>>)>>,
     <<Inline_Text("a"), Inline_Strong(<<Inline_Strong(<<Inline_Text("b")>>)>>)>>,
     <<Inline_Emphasis(<<Inline_Text("a")>>)>>, <<Inline_Code("c")>>,
     <<Inline_Strong(<<Inline_SoftBreak>>)>>,
     <<Inline_Link("Inline", "u", "t", "i", <<Inline_Text("a")>>)>>}

WlBlocks ==
    {Block_Heading(level, i) : level \in 1..6, i \in WlInlines}
    \cup {Block_Paragraph(i) : i \in WlInlines}
    \cup {Block_Rule, Block_CodeBlock(CodeBlockKind_Indented, "a"),
          Block_CodeBlock(CodeBlockKind_Fenced("rs"), "a"),
          Block_Table(<<>>, <<>>, <<>>),
          Block_BlockQuote(None, <<Block_Rule>>),
          Block_BlockQuote(None, <<Block_Table(<<>>, <<>>, <<>>)>>),
          Block_List(<<<<Block_Paragraph(<<Inline_Text("a")>>)>>, <<>>>>)}

\* Expressions that block_to_expr does not return.
WlExprs ==
    {Expr_string("a"), Expr_list(<<>>), Expr_normal(MarkdownElement, <<>>),
     Expr_normal(MarkdownElement, <<Expr_integer(1), Expr_list(<<>>)>>),
     Expr_normal(MarkdownElement,
                 <<Expr_string("Paragraph"), Expr_list(<<>>), Expr_list(<<>>)>>),
     Expr_normal(MarkdownElement, <<Expr_string("Paragraph"), Expr_string("a")>>),
     Expr_normal(MarkdownElement,
                 <<Expr_string("Paragraph"), Expr_list(<<Expr_string("a")>>)>>),
     Expr_normal(MarkdownElement,
                 <<Expr_string("Paragraph"),
                   Expr_list(<<Expr_normal(MarkdownElement,
                                   <<Expr_string("Text"), Expr_integer(1)>>)>>)>>)}
    \cup {Expr_normal(MarkdownElement, <<Expr_string("Heading"), level, Expr_list(<<>>)>>) :
            level \in {Expr_integer(0), Expr_integer(7), Expr_string("1"),
                       Expr_real("1.0")}}

WlInit ==
    /\ \/ /\ wl_block \in {Some(b) : b \in WlBlocks}
          /\ wl_expr = <<>>
          /\ wl_pc = "block_to_expr"
       \/ /\ wl_block = None
          /\ wl_expr \in {Some(e) : e \in WlExprs}
          /\ wl_pc = "parse_expr_to_block"
    /\ wl_parsed = <<>>
    /\ MdIdle
    /\ NbIdle

\* The call of block_to_expr on the block.
call_block_to_expr ==
    /\ wl_pc = "block_to_expr"
    /\ LET expr == block_to_expr(wl_block[1]) IN
       IF expr.ok
       THEN wl_expr' = Some(expr.v) /\ wl_pc' = "parse_expr_to_block"
       ELSE wl_expr' = wl_expr /\ wl_pc' = "panic"
    /\ UNCHANGED <<wl_block, wl_parsed, md_vars, nb_vars>>

\* The call of parse_expr_to_block on the expression; an Err is a value it
\* returns.
call_parse_expr_to_block ==
    /\ wl_pc = "parse_expr_to_block"
    /\ LET parsed == parse_expr_to_block(wl_expr[1]) IN
       IF parsed = Panic
       THEN wl_parsed' = wl_parsed /\ wl_pc' = "panic"
       ELSE wl_parsed' = Some(parsed) /\ wl_pc' = "done"
    /\ UNCHANGED <<wl_block, wl_expr, md_vars, nb_vars>>

WlNext ==
    \/ call_block_to_expr
    \/ call_parse_expr_to_block

WlSpec == WlInit /\ [][WlNext]_vars

\* ---------------------------------------------------------------------------
\* Properties of the unflattener
\* ---------------------------------------------------------------------------

\* The number of Start events less the number of End events among the first n
\* events of evs.
RECURSIVE Balance(_, _)
Balance(evs, n) ==
    IF n = 0 THEN 0
    ELSE Balance(evs, n - 1) + (CASE evs[n].k = "Start" -> 1
                                  [] evs[n].k = "End" -> -1
                                  [] OTHER -> 0)

\* The event the unflattener is about to handle.
NextEvent == event_stream[pos + 1]

\* The unflattener is about to handle an End whose tag is not the closing form
\* of the tag of the top frame.
MismatchedEndNext ==
    /\ pc = "unflatten"
    /\ pos < Len(event_stream)
    /\ NextEvent.k = "End"
    /\ nested # <<>>
    /\ NextEvent.tag # ClosingForm(nested[Len(nested)][1])

\* C4: an End(tag) whose tag is not the closing form of the tag of the top
\* stack frame makes the unflattener fail fatally.
C4_MismatchedEndIsFatal == [][MismatchedEndNext => pc' = "panic"]_vars

\* The unflattener is about to handle an End that no Start of the input opened.
UnopenedEndNext ==
    /\ pc = "unflatten"
    /\ pos < Len(event_stream)
    /\ NextEvent.k = "End"
    /\ Balance(event_stream, pos) = 0

\* C5: an End arriving when every Start before it is already closed makes the
\* unflattener fail fatally; no tree is returned and nothing runs afterwards.
C5_UnopenedEndIsFatal ==
    [][/\ UnopenedEndNext => (pc' = "panic" /\ events' = <<>> /\ root' = root)
       /\ pc # "panic"]_vars

\* C5, its case: the unflattener failed on an End with an empty stack.
C5_Witness ==
    /\ pc = "panic"
    /\ pos < Len(event_stream)
    /\ NextEvent.k = "End"
    /\ nested = <<>>
    /\ Balance(event_stream, pos) = 0

\* The input is exhausted with a Start still open.
UnterminatedAtEnd ==
    /\ pc = "unflatten"
    /\ pos = Len(event_stream)
    /\ Balance(event_stream, pos) > 0

\* C6: at the end of the input an open Start makes the unflattener fail
\* fatally, and the root is returned only when the stack is empty.
C6_UnterminatedStartIsFatal ==
    [][/\ UnterminatedAtEnd => (pc' = "panic" /\ events' = <<>>)
       /\ (pc = "unflatten" /\ pc' = "build") =>
              (nested = <<>> /\ events' = root /\ pos = Len(event_stream))]_vars

\* C6, its case: the unflattener failed at the end of the input with a frame
\* still on the stack.
C6_Witness ==
    /\ pc = "panic"
    /\ pos = Len(event_stream)
    /\ nested # <<>>
    /\ Balance(event_stream, pos) > 0

\* The Nested nodes of a forest whose roots are at depth d, each with its
\* depth, in the order in which their last events come.
RECURSIVE NestedPostOrder(_, _)
NestedPostOrder(forest, d) ==
    IF forest = <<>> THEN <<>>
    ELSE LET n == Head(forest)
         IN  (IF n.u = "Nested"
              THEN NestedPostOrder(n.events, d + 1) \o <<[node |-> n, depth |-> d]>>
              ELSE <<>>)
             \o NestedPostOrder(Tail(forest), d)

\* The events of evs with the tag of every End forgotten.
EndsErased(evs) ==
    [i \in 1..Len(evs) |-> IF evs[i].k = "End" THEN [k |-> "End"] ELSE evs[i]]

\* The position of the Start that the End at position e of evs closes.
MatchingStart(evs, e) ==
    CHOOSE s \in 1..e :
        /\ evs[s].k = "Start"
        /\ Balance(evs, s) = Balance(evs, e) + 1
        /\ \A j \in (s + 1)..(e - 1) :
               ~(evs[j].k = "Start" /\ Balance(evs, j) = Balance(evs, e) + 1)

\* The unflattener returned its root.
TreeReturned ==
    \/ pc \in {"build", "done"}
    \/ pc = "serialize" /\ mode = "events"

\* C7: every Nested node of the returned tree carries the tag of its Start, its
\* children are exactly the events strictly between that Start and the End
\* closing it, and its depth in the tree is the depth of the stack when its End
\* was handled.
C7_NestedChildrenAndDepth ==
    TreeReturned =>
        LET po == NestedPostOrder(root, 0)
        IN  /\ Len(po) = Len(emitted)
            /\ \A i \in 1..Len(po) :
                   LET e == emitted[i].end_pos
                       s == MatchingStart(event_stream, e)
                   IN  /\ po[i].node = emitted[i].node
                       /\ po[i].depth = emitted[i].depth
                       /\ po[i].depth = Balance(event_stream, e)
                       /\ event_stream[e].k = "End"
                       /\ event_stream[s] = Event_Start(po[i].node.tag)
                       /\ EndsErased(Flatten(po[i].node.events)) =
                              EndsErased(SubSeq(event_stream, s + 1, e - 1))

\* C7, its case: a tree was returned with a Nested node below the root that
\* has children of its own.
C7_Witness ==
    /\ TreeReturned
    /\ \E i \in 1..Len(emitted) :
           /\ emitted[i].depth >= 1
           /\ emitted[i].node.events # <<>>
           /\ emitted[i].node \in {n.node : n \in
                  {NestedPostOrder(root, 0)[j] : j \in 1..Len(NestedPostOrder(root, 0))}}

\* ---------------------------------------------------------------------------
\* Properties of the two directions together
\* ---------------------------------------------------------------------------

\* Whether evs, read from left to right with the tags of the open Starts in
\* `open`, closes every Start with the End of its tag and opens no End.
RECURSIVE WellPaired(_, _)
WellPaired(evs, open) ==
    IF evs = <<>> THEN open = <<>>
    ELSE LET e == Head(evs)
         IN  CASE e.k = "Start" -> WellPaired(Tail(evs), Append(open, e.tag))
               [] e.k = "End" ->
                      /\ open # <<>>
                      /\ e.tag = ClosingForm(open[Len(open)])
                      /\ WellPaired(Tail(evs), SubSeq(open, 1, Len(open) - 1))
               [] OTHER -> WellPaired(Tail(evs), open)

\* ast_to_events has returned.
Serialized ==
    \/ mode = "ast" /\ pc # "serialize"
    \/ mode = "events" /\ pc = "done"

\* C3: what ast_to_events returns is structurally valid: every Start is closed
\* by the End of its tag, properly nested, so unflattening it never fails.
C3_SerializedIsWellPaired ==
    Serialized =>
        /\ WellPaired(out, <<>>)
        /\ (mode = "ast" /\ pc = "panic") =>
               (pos = Len(event_stream) /\ nested = <<>> /\ events # <<>>)

\* C3, its case: a list or a block quote was serialized and its events
\* unflattened.
C3_Witness ==
    /\ mode = "ast"
    /\ pc = "build"
    /\ \E i \in 1..Len(blocks) : blocks[i].b \in {"List", "BlockQuote", "Table"}
    /\ \E i \in 1..Len(out) : out[i].k = "Start" /\ Balance(out, i) >= 3
    /\ event_stream = out

\* The grammar of what the tokenizer emits for inline content, conservatively.
RECURSIVE TokenizerInline(_)
TokenizerInline(n) ==
    IF n.u = "Event"
    THEN \/ n.event.k \in {"Text", "Code"} /\ n.event.s # ""
         \/ n.event.k \in {"SoftBreak", "HardBreak"}
    ELSE /\ n.tag.t \in {"Emphasis", "Strong", "Strikethrough"}
         /\ n.events # <<>>
         /\ \A i \in 1..Len(n.events) : TokenizerInline(n.events[i])

\* The grammar of what the tokenizer emits for a block, conservatively: rules,
\* paragraphs and headings of inline content, block quotes of blocks, and
\* tight lists whose items hold inline content only.
RECURSIVE TokenizerBlock(_)
TokenizerBlock(n) ==
    IF n.u = "Event" THEN n.event.k = "Rule"
    ELSE CASE n.tag.t \in {"Paragraph", "Heading"} ->
                  /\ n.events # <<>>
                  /\ \A i \in 1..Len(n.events) : TokenizerInline(n.events[i])
           [] n.tag.t = "BlockQuote" ->
                  \A i \in 1..Len(n.events) : TokenizerBlock(n.events[i])
           [] n.tag.t = "List" ->
                  /\ n.events # <<>>
                  /\ \A i \in 1..Len(n.events) :
                         LET item == n.events[i]
                         IN  /\ item.u = "Nested"
                             /\ item.tag.t = "Item"
                             /\ item.events # <<>>
                             /\ \A j \in 1..Len(item.events) :
                                    TokenizerInline(item.events[j])
           [] OTHER -> FALSE

\* The input events are a document the tokenizer can emit.
TokenizerProduced ==
    /\ mode = "events"
    /\ pos = Len(event_stream)
    /\ nested = <<>>
    /\ WellPaired(event_stream, <<>>)
    /\ \A i \in 1..Len(root) : TokenizerBlock(root[i])

\* C1: for events E the tokenizer emits, over the supported constructs,
\* ast_to_events(events_to_ast(E)) is E.
C1_EventsRoundTrip ==
    (TokenizerProduced /\ pc = "done") => out = event_stream

\* Whether a Paragraph without inlines occurs in bs, at any depth.
RECURSIVE HasEmptyParagraph(_)
HasEmptyParagraph(bs) ==
    \E i \in 1..Len(bs) :
        CASE bs[i].b = "Paragraph" -> bs[i].inlines = <<>>
          [] bs[i].b = "BlockQuote" -> HasEmptyParagraph(bs[i].blocks)
          [] bs[i].b = "List" ->
                 \E j \in 1..Len(bs[i].items) : HasEmptyParagraph(bs[i].items[j])
          [] OTHER -> FALSE

\* C2: for blocks B, here those where every Paragraph has inlines,
\* events_to_ast(ast_to_events(B)) returns B.
C2_AstRoundTrip ==
    (mode = "ast" /\ ~HasEmptyParagraph(blocks) /\ pc \in {"done", "panic"}) =>
        (pc = "done" /\ ast = blocks)

\* ---------------------------------------------------------------------------
\* Properties of the block builder
\* ---------------------------------------------------------------------------

\* The classification of a node as block-breaking: heading, paragraph, list,
\* item, code block, block quote, table, rule, raw HTML, task marker.
BlockBreaking(n) ==
    IF n.u = "Event" THEN n.event.k \in {"Rule", "Html", "TaskListMarker"}
    ELSE n.tag.t \in {"Heading", "Paragraph", "List", "Item", "CodeBlock",
                      "BlockQuote", "Table"}

\* The builder is about to process a block-breaking node with inlines pending.
BreakingNodeNext ==
    /\ pc = "build"
    /\ events # <<>>
    /\ BlockBreaking(Head(events))
    /\ text_spans # <<>>

\* C8: when a block-breaking node is processed with inlines pending, one
\* Paragraph of the pending inlines is appended just before the blocks of the
\* node, once, and the flush leaves no inlines pending: what is pending when
\* the node has been processed is what the node itself added (the inlines of
\* a Paragraph node, nothing for the other nodes).
C8_FlushOnBoundary ==
    [][(BreakingNodeNext /\ pc' = "build") =>
          LET alone == ast_events_to_ast_event(BuilderState(<<>>, <<>>), Head(events))
              flushed == flush(BuilderState(complete, text_spans), FALSE)
          IN  /\ alone.ok
              /\ flushed.text_spans = <<>>
              /\ flushed.complete = complete \o <<Block_Paragraph(text_spans)>>
              /\ complete' = flushed.complete \o alone.v.complete
              /\ text_spans' = alone.v.text_spans
              /\ (Head(events).u = "Nested" /\ Head(events).tag.t = "Paragraph")
                     \/ text_spans' = <<>>]_vars

\* The index in root of the node the builder processed last.
Processed == Len(root) - Len(events)

\* C8, its case: the builder has just processed a block-breaking node that
\* follows inline content, and has emitted a block for it.
C8_Witness ==
    /\ pc = "build"
    /\ Processed >= 2
    /\ BlockBreaking(root[Processed])
    /\ ~BlockBreaking(root[Processed - 1])
    /\ text_spans = <<>>
    /\ Len(complete) >= 2
    /\ complete[Len(complete) - 1].b = "Paragraph"
    /\ complete[Len(complete)].b # "Paragraph"

\* What one resolved inline of a code block adds to its code.
CodePiece(span) ==
    CASE span.i = "Text" -> span.s
      [] span.i = "SoftBreak" -> " "
      [] span.i = "HardBreak" -> "\n"

\* The pieces of spans, one after the other.
RECURSIVE CodePieces(_)
CodePieces(spans) ==
    IF spans = <<>> THEN ""
    ELSE CodePieces(SubSeq(spans, 1, Len(spans) - 1)) \o CodePiece(spans[Len(spans)])

\* The builder is about to process a code block.
CodeBlockNext ==
    /\ pc = "build"
    /\ events # <<>>
    /\ Head(events).u = "Nested"
    /\ Head(events).tag.t = "CodeBlock"

\* C9: the code of a built CodeBlock is its resolved inlines put one after the
\* other, a Text as its string, a SoftBreak as a space and a HardBreak as a
\* newline, and the build fails when another kind of inline is among them.
C9_CodeBlockText ==
    [][CodeBlockNext =>
          LET spans == unwrap_text(Head(events).events)
          IN  IF /\ spans.ok
                 /\ \A i \in 1..Len(spans.v) :
                        spans.v[i].i \in {"Text", "SoftBreak", "HardBreak"}
              THEN /\ pc' = "build"
                   /\ complete' # <<>>
                   /\ complete'[Len(complete')].b = "CodeBlock"
                   /\ complete'[Len(complete')].code = CodePieces(spans.v)
              ELSE pc' = "panic"]_vars

\* C9, its case: a code block of a Text, a SoftBreak or HardBreak and a Text
\* was built.
C9_Witness ==
    /\ pc = "build"
    /\ Processed = 1
    /\ root[1].u = "Nested"
    /\ root[1].tag.t = "CodeBlock"
    /\ Len(root[1].events) = 3
    /\ \E i \in 1..3 : root[1].events[i] = UnflattenedEvent_Event(Event_SoftBreak)
    /\ \E i \in 1..3 : root[1].events[i] = UnflattenedEvent_Event(Event_HardBreak)
    /\ complete # <<>>
    /\ complete[1].b = "CodeBlock"
    /\ Len(complete[1].code) = 3

\* C9, its other case: the build failed on a code block holding a code span.
C9_WitnessFails ==
    /\ pc = "panic"
    /\ events # <<>>
    /\ Head(events).u = "Nested"
    /\ Head(events).tag.t = "CodeBlock"
    /\ \E i \in 1..Len(Head(events).events) :
           Head(events).events[i] = UnflattenedEvent_Event(Event_Code("c"))

\* Whether every Table of bs, at any depth, has as many cells in each row as
\* it has headers.
RECURSIVE TablesRegular(_)
TablesRegular(bs) ==
    \A i \in 1..Len(bs) :
        CASE bs[i].b = "Table" ->
                 \A r \in 1..Len(bs[i].rows) :
                     Len(bs[i].rows[r]) = Len(bs[i].headers)
          [] bs[i].b = "BlockQuote" -> TablesRegular(bs[i].blocks)
          [] bs[i].b = "List" ->
                 \A j \in 1..Len(bs[i].items) : TablesRegular(bs[i].items[j])
          [] OTHER -> TRUE

\* C10: in every Table the builder returns, each row has as many cells as
\* there are headers.
C10_TableShape ==
    (mode = "events" /\ pc \in {"serialize", "done"}) => TablesRegular(ast)

\* Whether every node of evs is a Nested node of the tag.
AllNested(evs, tag) ==
    \A i \in 1..Len(evs) : evs[i].u = "Nested" /\ evs[i].tag = tag

\* The shape of the children of a table: a head first, rows after it, and
\* cells in the head and in each row.
TableShaped(children) ==
    /\ children # <<>>
    /\ children[1].u = "Nested"
    /\ children[1].tag = Tag_TableHead
    /\ AllNested(Tail(children), Tag_TableRow)
    /\ \A i \in 1..Len(children) : AllNested(children[i].events, Tag_TableCell)

\* The builder is about to process a table.
TableNext ==
    /\ pc = "build"
    /\ events # <<>>
    /\ Head(events).u = "Nested"
    /\ Head(events).tag.t = "Table"

\* C11: building a table fails unless its first child is a head, the others
\* are rows, and the children of the head and of the rows are cells.
C11_TableShapeIsChecked ==
    [][(TableNext /\ ~TableShaped(Head(events).events)) => pc' = "panic"]_vars

\* C11, its case: the build failed on a table with a head of cells and a row
\* that holds a node that is no cell.
C11_Witness ==
    /\ pc = "panic"
    /\ events # <<>>
    /\ Head(events).u = "Nested"
    /\ Head(events).tag.t = "Table"
    /\ LET children == Head(events).events
       IN  /\ Len(children) = 2
           /\ children[1].u = "Nested"
           /\ children[1].tag = Tag_TableHead
           /\ children[1].events # <<>>
           /\ AllNested(children[1].events, Tag_TableCell)
           /\ children[2].u = "Nested"
           /\ children[2].tag = Tag_TableRow
           /\ ~AllNested(children[2].events, Tag_TableCell)

\* The atomic events the builder has no inline or block for.
UnsupportedAtoms ==
    {"Html", "InlineHtml", "TaskListMarker", "FootnoteReference", "InlineMath",
     "DisplayMath"}

\* Whether an unsupported atomic event is among evs.
HasUnsupportedAtom(evs) == \E i \in 1..Len(evs) : evs[i].k \in UnsupportedAtoms

\* C12: an atomic raw HTML, inline HTML, task marker, footnote reference or
\* math event makes the builder fail where it meets it, in block context and
\* in inline context, and no events holding one are built into blocks.
C12_UnsupportedAtomIsFatal ==
    [][/\ (mode = "events" /\ HasUnsupportedAtom(event_stream)) =>
              pc' \notin {"serialize", "done"}
       /\ (/\ pc = "build"
           /\ events # <<>>
           /\ HasUnsupportedAtom(Flatten(<<Head(events)>>))) => pc' = "panic"]_vars

\* C12, its case: the build failed on a node of inline content that holds a
\* footnote reference.
C12_Witness ==
    /\ pc = "panic"
    /\ events # <<>>
    /\ Head(events).u = "Nested"
    /\ Head(events).tag.t \in {"Emphasis", "Paragraph"}
    /\ Head(events).events = <<UnflattenedEvent_Event(Event_FootnoteReference("f"))>>

\* Whether n is a Nested Link or Image whose children resolve to inlines.
LinkOrImage(n) ==
    /\ n.u = "Nested"
    /\ n.tag.t \in {"Link", "Image"}
    /\ unwrap_text(n.events).ok

\* The Inline a Nested Link or Image stands for.
LinkOrImageInline(n) ==
    IF n.tag.t = "Link"
    THEN Inline_Link(n.tag.link_type, n.tag.dest_url, n.tag.title, n.tag.id,
                     unwrap_text(n.events).v)
    ELSE Inline_Image(n.tag.link_type, n.tag.dest_url, n.tag.title, n.tag.id,
                      unwrap_text(n.events).v)

\* Whether n is a list of one item that holds one Link or Image.
ListOfOneLinkOrImage(n) ==
    /\ n.u = "Nested"
    /\ n.tag.t = "List"
    /\ Len(n.events) = 1
    /\ n.events[1].u = "Nested"
    /\ n.events[1].tag.t = "Item"
    /\ Len(n.events[1].events) = 1
    /\ LinkOrImage(n.events[1].events[1])

\* C13: in block context a Link and an Image are inline content: nothing is
\* flushed, and the Inline of the node, with its link type, destination,
\* title, id and resolved children, is pushed onto the pending inlines (so a
\* list item holding just the node builds to a Paragraph of that Inline).
C13_LinkAndImageInBlockContext ==
    [][/\ (pc = "build" /\ events # <<>> /\ LinkOrImage(Head(events))) =>
              /\ pc' = "build"
              /\ complete' = complete
              /\ text_spans' = Append(text_spans, LinkOrImageInline(Head(events)))
       /\ (pc = "build" /\ events # <<>> /\ ListOfOneLinkOrImage(Head(events))) =>
              /\ pc' = "build"
              /\ complete' = Append(complete, Block_List(<<<<Block_Paragraph(
                     <<LinkOrImageInline(Head(events).events[1].events[1])>>)>>>>))
      ]_vars

\* The builder is about to process a list.
ListNext ==
    /\ pc = "build"
    /\ events # <<>>
    /\ Head(events).u = "Nested"
    /\ Head(events).tag.t = "List"

\* C14: building a list makes one ListItem of each Item child, in order, of
\* the blocks built from the children of the Item, and fails when a child of
\* the list is no Item.
C14_ListItems ==
    [][ListNext =>
          LET children == Head(events).events
          IN  IF ~AllNested(children, Tag_Item) THEN pc' = "panic"
              ELSE IF \E i \in 1..Len(children) :
                          ~ast_events_to_ast(children[i].events).ok
              THEN pc' = "panic"
              ELSE /\ pc' = "build"
                   /\ complete' # <<>>
                   /\ complete'[Len(complete')] =
                          Block_List([i \in 1..Len(children) |->
                              ast_events_to_ast(children[i].events).v])]_vars

\* C14, its case: a list of two items that differ was built.
C14_Witness ==
    /\ pc = "build"
    /\ Processed >= 1
    /\ root[Processed].u = "Nested"
    /\ root[Processed].tag.t = "List"
    /\ Len(root[Processed].events) = 2
    /\ root[Processed].events[1] # root[Processed].events[2]
    /\ complete # <<>>
    /\ complete[Len(complete)].b = "List"
    /\ Len(complete[Len(complete)].items) = 2
    /\ complete[Len(complete)].items[1] # complete[Len(complete)].items[2]

\* C14, its other case: the build failed on a list that holds a child that is
\* no Item.
C14_WitnessFails ==
    /\ pc = "panic"
    /\ events # <<>>
    /\ Head(events).u = "Nested"
    /\ Head(events).tag.t = "List"
    /\ Head(events).events # <<>>
    /\ ~AllNested(Head(events).events, Tag_Item)

\* ---------------------------------------------------------------------------
\* Properties of the serializer
\* ---------------------------------------------------------------------------

\* The sequences of seqs, one after the other.
RECURSIVE Concat(_)
Concat(seqs) == IF seqs = <<>> THEN <<>> ELSE Head(seqs) \o Concat(Tail(seqs))

\* Whether a list is one item of one Paragraph.
OneItemOneParagraph(items) ==
    /\ Len(items) = 1
    /\ Len(items[1]) = 1
    /\ items[1][1].b = "Paragraph"

\* The events of a list: in a list of one item of one Paragraph the inlines of
\* the paragraph are what the Item holds, and in any other list an Item holds
\* the events of each of its blocks.
ListEvents(items) ==
    <<Event_Start(Tag_List(None))>>
    \o Concat([j \in 1..Len(items) |->
           <<Event_Start(Tag_Item)>>
           \o (IF OneItemOneParagraph(items)
               THEN inlines_to_events(items[j][1].inlines)
               ELSE Concat([k \in 1..Len(items[j]) |->
                        block_to_events(items[j][k])]))
           \o <<Event_End(ClosingForm(Tag_Item))>>])
    \o <<Event_End(ClosingForm(Tag_List(None)))>>

\* Whether every list of bs, at any depth, is serialized to ListEvents, and a
\* Paragraph that is an item's block with others, or in a list of more items,
\* to its inlines between Start(Paragraph) and End(Paragraph).
RECURSIVE ListsFollowRule(_)
ListsFollowRule(bs) ==
    \A i \in 1..Len(bs) :
        CASE bs[i].b = "List" ->
                 /\ block_to_events(bs[i]) = ListEvents(bs[i].items)
                 /\ \A j \in 1..Len(bs[i].items) :
                        /\ ListsFollowRule(bs[i].items[j])
                        /\ ~OneItemOneParagraph(bs[i].items) =>
                               \A k \in 1..Len(bs[i].items[j]) :
                                   bs[i].items[j][k].b = "Paragraph" =>
                                       block_to_events(bs[i].items[j][k]) =
                                           <<Event_Start(Tag_Paragraph)>>
                                           \o inlines_to_events(bs[i].items[j][k].inlines)
                                           \o <<Event_End(ClosingForm(Tag_Paragraph))>>
          [] bs[i].b = "BlockQuote" -> ListsFollowRule(bs[i].blocks)
          [] OTHER -> TRUE

\* C15: a list is serialized with the inlines of a paragraph directly inside
\* the Item exactly when it has one item whose blocks are one Paragraph; in
\* every other list each block of each item is serialized as a block, a
\* Paragraph between Start(Paragraph) and End(Paragraph).
C15_ListSpecialCase ==
    (mode = "ast" /\ pc # "serialize") =>
        /\ ListsFollowRule(blocks)
        /\ out = Concat([i \in 1..Len(blocks) |->
                     IF blocks[i].b = "List" THEN ListEvents(blocks[i].items)
                     ELSE block_to_events(blocks[i])])

\* C15, its case: a list of one item of one paragraph was serialized without
\* the Start and End of the paragraph.
C15_Witness ==
    /\ mode = "ast"
    /\ pc # "serialize"
    /\ blocks = <<Block_List(<<<<Block_Paragraph(<<Inline_Text("a")>>)>>>>)>>
    /\ out = <<Event_Start(Tag_List(None)), Event_Start(Tag_Item), Event_Text("a"),
               Event_End(ClosingForm(Tag_Item)),
               Event_End(ClosingForm(Tag_List(None)))>>

\* C15, its other case: a list of two items of one paragraph each was
\* serialized with the Start and End of each paragraph.
C15_WitnessTwoItems ==
    /\ mode = "ast"
    /\ pc # "serialize"
    /\ Len(blocks) = 1
    /\ blocks[1].b = "List"
    /\ Len(blocks[1].items) = 2
    /\ \A j \in 1..2 : Len(blocks[1].items[j]) = 1
                       /\ blocks[1].items[j][1].b = "Paragraph"
    /\ Cardinality({i \in 1..Len(out) : out[i] = Event_Start(Tag_Paragraph)}) = 2

\* The classification of a node as inline-compatible: text, code span, soft
\* and hard break, footnote reference, emphasis, strong, strikethrough, link,
\* image.
InlineCompatible(n) ==
    IF n.u = "Event"
    THEN n.event.k \in {"Text", "Code", "SoftBreak", "HardBreak", "FootnoteReference"}
    ELSE n.tag.t \in {"Emphasis", "Strong", "Strikethrough", "Link", "Image"}

\* The inline-compatible nodes the builder has an Inline for in block context,
\* with children that resolve.
BuildsToInline(n) ==
    IF n.u = "Event" THEN n.event.k \in {"Text", "Code", "SoftBreak", "HardBreak"}
    ELSE /\ n.tag.t \in {"Emphasis", "Strong", "Strikethrough", "Link"}
         /\ unwrap_text(n.events).ok

\* The Inline of an inline-compatible node.
InlineOf(n) ==
    IF n.u = "Event"
    THEN CASE n.event.k = "Text" -> Inline_Text(n.event.s)
           [] n.event.k = "Code" -> Inline_Code(n.event.s)
           [] n.event.k = "SoftBreak" -> Inline_SoftBreak
           [] n.event.k = "HardBreak" -> Inline_HardBreak
    ELSE CASE n.tag.t = "Emphasis" -> Inline_Emphasis(unwrap_text(n.events).v)
           [] n.tag.t = "Strong" -> Inline_Strong(unwrap_text(n.events).v)
           [] n.tag.t = "Strikethrough" ->
                  Inline_Strikethrough(unwrap_text(n.events).v)
           [] n.tag.t \in {"Link", "Image"} -> LinkOrImageInline(n)

\* Whether n is an Item with children, all of them inline-compatible.
ItemOfInlines(n) ==
    /\ n.u = "Nested"
    /\ n.tag.t = "Item"
    /\ n.events # <<>>
    /\ \A k \in 1..Len(n.events) : InlineCompatible(n.events[k])

\* C16: when a level of block context ends with inlines pending, one final
\* Paragraph of them is appended, and none when nothing is pending; so an
\* Item whose children are all inline-compatible builds, when it builds, to a
\* ListItem of one Paragraph of their inlines in order, and it does build
\* when the builder has an Inline for each child.
C16_FinalFlush ==
    [][/\ (pc = "build" /\ pc' \in {"serialize", "done"}) =>
              /\ events = <<>>
              /\ ast' = IF text_spans # <<>>
                        THEN complete \o <<Block_Paragraph(text_spans)>>
                        ELSE complete
       /\ ListNext =>
              LET children == Head(events).events
              IN  /\ pc' = "build" =>
                         \A j \in 1..Len(children) :
                             ItemOfInlines(children[j]) =>
                                 complete'[Len(complete')].items[j] =
                                     <<Block_Paragraph(
                                         [k \in 1..Len(children[j].events) |->
                                             InlineOf(children[j].events[k])])>>
                  /\ (\A j \in 1..Len(children) :
                          /\ ItemOfInlines(children[j])
                          /\ \A k \in 1..Len(children[j].events) :
                                 BuildsToInline(children[j].events[k]))
                         => pc' = "build"]_vars

\* C16, its case: a list of an Item that holds three inline nodes and no
\* Paragraph was built to a ListItem of one Paragraph of the three inlines.
C16_Witness ==
    /\ pc = "build"
    /\ Processed >= 1
    /\ root[Processed].u = "Nested"
    /\ root[Processed].tag.t = "List"
    /\ Len(root[Processed].events) >= 1
    /\ ItemOfInlines(root[Processed].events[1])
    /\ Len(root[Processed].events[1].events) = 3
    /\ complete # <<>>
    /\ complete[Len(complete)].b = "List"
    /\ complete[Len(complete)].items[1] =
           <<Block_Paragraph(<<Inline_Text("a"), Inline_SoftBreak,
                               Inline_Emphasis(<<Inline_Text("b")>>)>>)>>

\* C16, its other case: the top level ended with inlines pending after a
\* block, and the blocks returned end with their Paragraph.
C16_WitnessTopLevel ==
    /\ mode = "events"
    /\ pc = "serialize"
    /\ text_spans # <<>>
    /\ complete # <<>>
    /\ ast = complete \o <<Block_Paragraph(text_spans)>>

\* Whether evs is two or more nodes, all of them Paragraph nodes whose
\* children resolve.
ConsecutiveParagraphs(evs) ==
    /\ Len(evs) >= 2
    /\ \A i \in 1..Len(evs) :
           /\ evs[i].u = "Nested"
           /\ evs[i].tag.t = "Paragraph"
           /\ unwrap_text(evs[i].events).ok

\* One Paragraph block for each Paragraph node of evs, of its own inlines.
ParagraphOfEach(evs) ==
    [i \in 1..Len(evs) |-> Block_Paragraph(unwrap_text(evs[i].events).v)]

\* The Paragraph of each node of evs that has inlines.
ParagraphOfEachWithInlines(evs) ==
    SelectSeq(ParagraphOfEach(evs), LAMBDA b : b.inlines # <<>>)

\* events_to_ast has returned the blocks built from the input events.
Built == mode = "events" /\ pc \in {"serialize", "done"}

\* Whether n is a list whose children are all Items.
ListOfItems(n) ==
    /\ n.u = "Nested"
    /\ n.tag.t = "List"
    /\ AllNested(n.events, Tag_Item)

ParagraphNext ==
    /\ pc = "build"
    /\ events # <<>>
    /\ Head(events).u = "Nested"
    /\ Head(events).tag.t = "Paragraph"
    /\ unwrap_text(Head(events).events).ok

\* Whether evs is a Paragraph node followed by nodes that are inline content.
ParagraphThenInlines(evs) ==
    /\ Len(evs) >= 2
    /\ evs[1].u = "Nested"
    /\ evs[1].tag.t = "Paragraph"
    /\ unwrap_text(evs[1].events).ok
    /\ \A i \in 2..Len(evs) : BuildsToInline(evs[i])

\* C19: in block context a Paragraph node pushes no block of its own: what
\* was pending is flushed, and the resolved inlines of the node become the
\* pending inlines; so the inline content that follows the node at its level
\* is built into the same Paragraph block as the inlines of the node.
C19_ParagraphIsSpliced ==
    [][/\ ParagraphNext =>
              /\ pc' = "build"
              /\ complete' = IF text_spans # <<>>
                             THEN complete \o <<Block_Paragraph(text_spans)>>
                             ELSE complete
              /\ text_spans' = unwrap_text(Head(events).events).v
       /\ (/\ pc = "build"
           /\ pc' \in {"serialize", "done"}
           /\ ParagraphThenInlines(root)) =>
              ast' = <<Block_Paragraph(
                         unwrap_text(root[1].events).v
                         \o [i \in 1..(Len(root) - 1) |-> InlineOf(root[i + 1])])>>
      ]_vars

\* C19, its case: a Paragraph node followed by a Text was built to one
\* Paragraph block of the inlines of both.
C19_Witness ==
    /\ Built
    /\ ParagraphThenInlines(root)
    /\ root[1].events # <<>>
    /\ ast = <<Block_Paragraph(<<Inline_Text("b"), Inline_Text("a")>>)>>

\* ---------------------------------------------------------------------------
\* Properties of the inline resolver
\* ---------------------------------------------------------------------------

\* Whether evs is atomic text, code spans and breaks only.
AtomsOfText(evs) ==
    \A i \in 1..Len(evs) :
        evs[i].u = "Event"
        /\ evs[i].event.k \in {"Text", "Code", "SoftBreak", "HardBreak"}

\* Whether evs is atomic text, code spans and breaks, and Paragraph nodes of
\* such.
TextAndParagraphs(evs) ==
    \A i \in 1..Len(evs) :
        IF evs[i].u = "Event"
        THEN evs[i].event.k \in {"Text", "Code", "SoftBreak", "HardBreak"}
        ELSE evs[i].tag.t = "Paragraph" /\ AtomsOfText(evs[i].events)

\* The inlines of atomic text, code spans and breaks.
AtomInlines(evs) == [i \in 1..Len(evs) |-> InlineOf(evs[i])]

\* The inlines of evs, read from its end: those of what comes before its last
\* node, then, for a Paragraph node, two hard breaks if there are inlines
\* before it and the inlines of the paragraph, and for an atom its inline.
RECURSIVE Resolved(_)
Resolved(evs) ==
    IF evs = <<>> THEN <<>>
    ELSE LET before == Resolved(SubSeq(evs, 1, Len(evs) - 1))
             n == evs[Len(evs)]
         IN  IF n.u = "Event" THEN Append(before, InlineOf(n))
             ELSE (IF before # <<>>
                   THEN before \o <<Inline_HardBreak, Inline_HardBreak>>
                   ELSE <<>>)
                  \o AtomInlines(n.events)

\* C20: the inline resolver puts two hard breaks before the inlines of a
\* Paragraph node when it has inlines already, and none when it has none, so
\* what it returns for nodes that begin with a Paragraph node begins with the
\* inlines of that paragraph; seen on the children of a code block and in the
\* code built from them.
C20_ParagraphBreaks ==
    [][(CodeBlockNext /\ TextAndParagraphs(Head(events).events)) =>
          LET children == Head(events).events
              r == unwrap_text(children)
          IN  /\ r.ok
              /\ r.v = Resolved(children)
              /\ (children # <<>> /\ children[1].u = "Nested") =>
                     SubSeq(r.v, 1, Len(children[1].events)) =
                         AtomInlines(children[1].events)
              /\ (\A i \in 1..Len(r.v) : r.v[i].i # "Code") =>
                     /\ pc' = "build"
                     /\ complete'[Len(complete')].code = CodePieces(Resolved(children))
      ]_vars

\* C20, its case: a code block of a Text and a Paragraph node was built, with
\* two newlines between the two.
C20_Witness ==
    /\ pc = "build"
    /\ Processed = 1
    /\ root[1] = UnflattenedEvent_Nested(Tag_CodeBlock(md_Indented),
                     <<T("a"), P(<<T("a")>>)>>)
    /\ complete = <<Block_CodeBlock(CodeBlockKind_Indented, "a\n\na")>>

\* C20, its other case: a code block of a Paragraph node and a Text was built,
\* with no newline before the paragraph.
C20_WitnessFirst ==
    /\ pc = "build"
    /\ Processed = 1
    /\ root[1] = UnflattenedEvent_Nested(Tag_CodeBlock(md_Indented),
                     <<P(<<T("a")>>), T("b")>>)
    /\ complete = <<Block_CodeBlock(CodeBlockKind_Indented, "ab")>>

\* Whether a node of a tag that is no inline is in evs, at any depth.
RECURSIVE HasBlockOnlyTag(_)
HasBlockOnlyTag(evs) ==
    \E i \in 1..Len(evs) :
        /\ evs[i].u = "Nested"
        /\ \/ evs[i].tag.t \in {"Heading", "BlockQuote", "CodeBlock", "HtmlBlock",
                                "List", "Item", "FootnoteDefinition", "Table",
                                "TableHead", "TableRow", "TableCell", "MetadataBlock"}
           \/ HasBlockOnlyTag(evs[i].events)

\* The builder is about to process a node whose children it hands to the
\* inline resolver.
InlineContentNext ==
    /\ pc = "build"
    /\ events # <<>>
    /\ Head(events).u = "Nested"
    /\ Head(events).tag.t \in {"Paragraph", "Heading", "Emphasis", "Strong",
                               "Strikethrough", "Link", "CodeBlock"}

\* C21: the inline resolver fails when the inline content it resolves holds,
\* at any depth, a node of a block-only tag; no inlines are returned with the
\* node left out.
C21_BlockOnlyTagInInlines ==
    [][(InlineContentNext /\ HasBlockOnlyTag(Head(events).events)) =>
          /\ ~unwrap_text(Head(events).events).ok
          /\ pc' = "panic"]_vars

\* C21, its case: the build failed on inline content that holds a node of a
\* block-only tag one level down.
C21_Witness ==
    /\ pc = "panic"
    /\ events # <<>>
    /\ Head(events).u = "Nested"
    /\ Head(events).tag.t = "Paragraph"
    /\ Len(Head(events).events) = 2
    /\ Head(events).events[2].u = "Nested"
    /\ Head(events).events[2].tag.t = "Emphasis"
    /\ HasBlockOnlyTag(<<Head(events).events[2]>>)
    /\ Head(events).events[2].events[1].u = "Nested"
    /\ Head(events).events[2].events[1].tag.t = "List"

\* The number of Block::List values in bs, at any depth.
RECURSIVE ListBlocks(_)
ListBlocks(bs) ==
    IF bs = <<>> THEN 0
    ELSE LET b == Head(bs) IN
         (CASE b.b = "List" -> 1 + ListBlocks(Concat(b.items))
            [] b.b = "BlockQuote" -> ListBlocks(b.blocks)
            [] OTHER -> 0)
         + ListBlocks(Tail(bs))

\* The positions of evs that hold an event e of a list, e a Start or an End.
ListFrames(evs, k) == {i \in 1..Len(evs) : evs[i].k = k /\ evs[i].tag.t = "List"}

\* The input events hold the Start of a list numbered from 1.
OrderedListInInput ==
    \E i \in 1..Len(event_stream) : event_stream[i] = Event_Start(Tag_List(Some(1)))

\* C22: ast_to_events frames every Block::List with Start(List(None)) and the
\* End of that tag: there are as many such Starts, and as many such Ends, as
\* lists in the blocks, and no Start of a list carries a start number; a List
\* block holds its items and nothing else.
C22_ListStartIsNone ==
    Serialized =>
        /\ \A i \in ListFrames(out, "Start") : out[i] = Event_Start(Tag_List(None))
        /\ \A i \in ListFrames(out, "End") : out[i] = Event_End(TagEnd_List(FALSE))
        /\ Cardinality(ListFrames(out, "Start")) = ListBlocks(blocks)
        /\ Cardinality(ListFrames(out, "End")) = ListBlocks(blocks)
        /\ \A i \in 1..Len(blocks) :
               blocks[i].b = "List" => DOMAIN blocks[i] = {"b", "items"}

\* C22, its case: the events a list numbered from 1 was built from are
\* serialized again, and the list comes out with no start number.
C22_Witness ==
    /\ mode = "events"
    /\ pc = "done"
    /\ OrderedListInInput
    /\ ListBlocks(blocks) = 1
    /\ out[1] = Event_Start(Tag_List(None))

\* C22, its case: a list inside a list is serialized.
C22_WitnessNested ==
    /\ mode = "ast"
    /\ pc = "done"
    /\ ListBlocks(blocks) = 2

\* The Block::CodeBlock values in bs, at any depth, in order.
RECURSIVE CodeBlocksIn(_)
CodeBlocksIn(bs) ==
    IF bs = <<>> THEN <<>>
    ELSE LET b == Head(bs) IN
         (CASE b.b = "CodeBlock" -> <<b>>
            [] b.b = "List" -> CodeBlocksIn(Concat(b.items))
            [] b.b = "BlockQuote" -> CodeBlocksIn(b.blocks)
            [] OTHER -> <<>>)
         \o CodeBlocksIn(Tail(bs))

\* The events of evs up to its first End of a code block.
RECURSIVE UpToCodeBlockEnd(_)
UpToCodeBlockEnd(evs) ==
    IF evs = <<>> THEN <<>>
    ELSE IF Head(evs).k = "End" /\ Head(evs).tag.t = "CodeBlock" THEN <<Head(evs)>>
    ELSE <<Head(evs)>> \o UpToCodeBlockEnd(Tail(evs))

\* For each Start of a code block in evs, in order, the events from that Start
\* up to the first End of a code block.
RECURSIVE CodeBlockEvents(_)
CodeBlockEvents(evs) ==
    IF evs = <<>> THEN <<>>
    ELSE (IF Head(evs).k = "Start" /\ Head(evs).tag.t = "CodeBlock"
          THEN <<UpToCodeBlockEnd(evs)>> ELSE <<>>)
         \o CodeBlockEvents(Tail(evs))

\* The three events of a code block.
ThreeEvents(b) ==
    <<Event_Start([t |-> "CodeBlock",
                   kind |-> IF b.kind.kind = "Fenced"
                            THEN [md |-> "Fenced", info |-> b.kind.info_string]
                            ELSE [md |-> "Indented"]]),
      Event_Text(b.code),
      Event_End([t |-> "CodeBlock"])>>

\* C23: ast_to_events emits, for every Block::CodeBlock, exactly three events:
\* the Start of a code block of its kind, one Text holding its code unchanged,
\* and the End of a code block.
C23_CodeBlockIsThreeEvents ==
    Serialized =>
        CodeBlockEvents(out) =
            [i \in 1..Len(CodeBlocksIn(blocks)) |-> ThreeEvents(CodeBlocksIn(blocks)[i])]

\* C23, its case: a fenced code block whose code holds a line break was
\* serialized.
C23_Witness ==
    /\ mode = "ast"
    /\ pc = "done"
    /\ blocks = <<Block_CodeBlock(CodeBlockKind_Fenced("rs"), "a\nb")>>
    /\ Len(out) = 3

\* C23, its case: a code block of no code was serialized.
C23_WitnessEmpty ==
    /\ mode = "ast"
    /\ pc # "serialize"
    /\ Len(blocks) = 2
    /\ blocks[2] = Block_CodeBlock(CodeBlockKind_Indented, "")
    /\ SubSeq(out, Len(out) - 2, Len(out)) = ThreeEvents(blocks[2])

\* The links and images of a sequence of inlines, at any depth, in order.
RECURSIVE LinksAndImages(_)
LinksAndImages(inlines) ==
    IF inlines = <<>> THEN <<>>
    ELSE LET n == Head(inlines) IN
         (CASE n.i = "Link" -> <<n>> \o LinksAndImages(n.content_text)
            [] n.i = "Image" -> <<n>> \o LinksAndImages(n.image_description)
            [] n.i \in {"Emphasis", "Strong", "Strikethrough"} ->
                   LinksAndImages(n.inlines)
            [] OTHER -> <<>>)
         \o LinksAndImages(Tail(inlines))

\* The inlines a sequence of blocks holds, at any depth, in order.
RECURSIVE InlinesOfBlocks(_)
InlinesOfBlocks(bs) ==
    IF bs = <<>> THEN <<>>
    ELSE LET b == Head(bs) IN
         (CASE b.b \in {"Paragraph", "Heading"} -> b.inlines
            [] b.b = "List" -> InlinesOfBlocks(Concat(b.items))
            [] b.b = "BlockQuote" -> InlinesOfBlocks(b.blocks)
            [] b.b = "Table" -> Concat(b.headers) \o Concat(Concat(b.rows))
            [] OTHER -> <<>>)
         \o InlinesOfBlocks(Tail(bs))

\* The tags of the Starts of links and images in evs, in order.
LinkAndImageTags(evs) ==
    LET starts == SelectSeq(evs, LAMBDA e : e.k = "Start" /\ e.tag.t \in {"Link", "Image"})
    IN  [i \in 1..Len(starts) |-> starts[i].tag]

\* The tag that carries the four fields of a link or an image.
TagOfInline(n) ==
    [t |-> n.i, link_type |-> n.link_type, dest_url |-> n.dest_url,
     title |-> n.title, id |-> n.id]

\* C24: the metadata of links and images pass through unchanged both ways.
\* Serializing blocks yields, for each link and image, a Start whose tag has
\* its link_type, dest_url, title and id; and the blocks built from those
\* events hold the same links and images, fields and content.
C24_LinkMetadataPassThrough ==
    /\ Serialized =>
          LET ls == LinksAndImages(InlinesOfBlocks(blocks)) IN
          LinkAndImageTags(out) = [i \in 1..Len(ls) |-> TagOfInline(ls[i])]
    /\ (mode = "ast" /\ pc = "done") =>
          LinksAndImages(InlinesOfBlocks(ast)) = LinksAndImages(InlinesOfBlocks(blocks))

\* C24, its case: a link that holds an image went from blocks to events and
\* back to blocks.
C24_Witness ==
    /\ mode = "ast"
    /\ pc = "done"
    /\ Len(LinksAndImages(InlinesOfBlocks(blocks))) = 2
    /\ LinksAndImages(InlinesOfBlocks(ast))[1].i = "Link"
    /\ LinksAndImages(InlinesOfBlocks(ast))[1].title = ""
    /\ LinksAndImages(InlinesOfBlocks(ast))[2].i = "Image"
    /\ LinksAndImages(InlinesOfBlocks(ast))[2].title = "t"

\* C24, its case: an image with a description went from blocks to events and
\* back to blocks.
C24_WitnessImage ==
    /\ mode = "ast"
    /\ pc = "done"
    /\ ast = <<Block_Paragraph(<<Inline_Image("Inline", "u", "t", "i",
                                              <<Inline_Text("a")>>)>>)>>
    /\ out[1] = Event_Start(Tag_Paragraph)
    /\ out[2] = Event_Start(Tag_Image("Inline", "u", "t", "i"))

\* The number of Event nodes in a forest, at any depth.
RECURSIVE AtomicNodes(_)
AtomicNodes(forest) ==
    IF forest = <<>> THEN 0
    ELSE (IF Head(forest).u = "Event" THEN 1 ELSE AtomicNodes(Head(forest).events))
         + AtomicNodes(Tail(forest))

\* The number of Event nodes in the accumulators of the frames of a stack.
RECURSIVE AtomicNodesOpen(_)
AtomicNodesOpen(stack) ==
    IF stack = <<>> THEN 0
    ELSE AtomicNodes(Head(stack)[2]) + AtomicNodesOpen(Tail(stack))

\* The number of events among the first n of evs that are no Start and no End.
AtomicEventsIn(evs, n) ==
    Cardinality({i \in 1..n : evs[i].k \notin {"Start", "End"}})

\* The unflattener has handled the first pos events without failing.
PrefixProcessed == pc = "unflatten" \/ TreeReturned

\* C25: after the unflattener has handled a prefix of the events without
\* failing, the stack is as deep as the Starts of the prefix outnumber its
\* Ends, and root and the open accumulators hold as many Event nodes as the
\* prefix has events that are no Start and no End.
C25_DepthAndAtomCount ==
    PrefixProcessed =>
        /\ Len(nested) = Balance(event_stream, pos)
        /\ AtomicNodes(root) + AtomicNodesOpen(nested) = AtomicEventsIn(event_stream, pos)

\* C25, its case: in the middle of the events, with a closed node and an Event
\* node in root, and an Event node in an open accumulator.
C25_Witness ==
    /\ pc = "unflatten"
    /\ pos < Len(event_stream)
    /\ Len(nested) >= 1
    /\ AtomicNodesOpen(nested) >= 1
    /\ \E i \in 1..Len(root) : root[i].u = "Event"
    /\ \E i \in 1..Len(root) : root[i].u = "Nested"

\* The unflattener failed: in handle_event, before the last event was handled,
\* or in finish, with a frame still open.
UnflattenFailed == pc = "panic" /\ (pos < Len(event_stream) \/ nested # <<>>)

\* C26: on correctly paired events the unflattener returns a tree, and the
\* pre-order flattening of the tree it returns (a Nested node as its Start,
\* its children, its End) is the events it was given.
C26_FlattenIsInverse ==
    WellPaired(event_stream, <<>>) =>
        /\ ~UnflattenFailed
        /\ TreeReturned => Flatten(root) = event_stream

\* C26, its case: a tree was returned for correctly paired events that hold a
\* node inside a node, and events beside it.
C26_Witness ==
    /\ TreeReturned
    /\ WellPaired(event_stream, <<>>)
    /\ Len(root) >= 2
    /\ \E i \in 1..Len(root) :
           /\ root[i].u = "Nested"
           /\ root[i].events # <<>>
           /\ root[i].events[1].u = "Nested"
    /\ Flatten(root) = event_stream

\* Whether a forest is one or more Paragraph nodes without children.
OnlyEmptyParagraphs(forest) ==
    /\ forest # <<>>
    /\ \A i \in 1..Len(forest) : forest[i] = UnflattenedEvent_Nested(Tag_Paragraph, <<>>)

\* C27: the builder never produces a Block::Paragraph of no inlines, at any
\* level of what it has completed or of what it returns; a Start(Paragraph)
\* closed at once by its End yields no block.
C27_NoEmptyParagraph ==
    /\ ~HasEmptyParagraph(complete)
    /\ ~HasEmptyParagraph(ast)
    /\ (Built /\ OnlyEmptyParagraphs(root)) => ast = <<>>

\* C27, its case: the builder returned for two Paragraph nodes without
\* children.
C27_Witness ==
    /\ Built
    /\ Len(root) = 2
    /\ OnlyEmptyParagraphs(root)
    /\ ast = <<>>

\* C27, its case: the builder returned a list whose items were each built from
\* a Paragraph node without children.
C27_WitnessNested ==
    /\ pc = "done"
    /\ root = <<UnflattenedEvent_Nested(Tag_List(None),
                  [i \in 1..2 |->
                      UnflattenedEvent_Nested(Tag_Item,
                          <<UnflattenedEvent_Nested(Tag_Paragraph, <<>>)>>)])>>
    /\ ast = <<Block_List(<< <<>>, <<>> >>)>>

\* The strings of the text and code spans of a sequence of inlines, at any
\* depth, in order.
RECURSIVE TextsOfInlines(_)
TextsOfInlines(inlines) ==
    IF inlines = <<>> THEN <<>>
    ELSE LET n == Head(inlines) IN
         (CASE n.i \in {"Text", "Code"} -> <<n.s>>
            [] n.i \in {"Emphasis", "Strong", "Strikethrough"} -> TextsOfInlines(n.inlines)
            [] n.i = "Link" -> TextsOfInlines(n.content_text)
            [] n.i = "Image" -> TextsOfInlines(n.image_description)
            [] OTHER -> <<>>)
         \o TextsOfInlines(Tail(inlines))

\* The strings of the text and code spans of a sequence of blocks, in order,
\* the code of a code block being one of them.
RECURSIVE TextsOfBlocks(_)
TextsOfBlocks(bs) ==
    IF bs = <<>> THEN <<>>
    ELSE LET b == Head(bs) IN
         (CASE b.b \in {"Paragraph", "Heading"} -> TextsOfInlines(b.inlines)
            [] b.b = "CodeBlock" -> <<b.code>>
            [] b.b = "List" -> TextsOfBlocks(Concat(b.items))
            [] b.b = "BlockQuote" -> TextsOfBlocks(b.blocks)
            [] b.b = "Table" ->
                   TextsOfInlines(Concat(b.headers) \o Concat(Concat(b.rows)))
            [] OTHER -> <<>>)
         \o TextsOfBlocks(Tail(bs))

\* The concatenation of a sequence of strings.
RECURSIVE ConcatStrings(_)
ConcatStrings(strs) ==
    IF strs = <<>> THEN "" ELSE Head(strs) \o ConcatStrings(Tail(strs))

\* The strings of the Text and Code events of a forest, in order, those inside
\* a code block concatenated into one.
RECURSIVE TextsOfForest(_)
TextsOfForest(forest) ==
    IF forest = <<>> THEN <<>>
    ELSE LET n == Head(forest) IN
         (CASE n.u = "Event" ->
                   (IF n.event.k \in {"Text", "Code"} THEN <<n.event.s>> ELSE <<>>)
            [] n.u = "Nested" /\ n.tag.t = "CodeBlock" ->
                   <<ConcatStrings(TextsOfForest(n.events))>>
            [] OTHER -> TextsOfForest(n.events))
         \o TextsOfForest(Tail(forest))

\* Whether every child of every code block of a forest is a Text event.
RECURSIVE CodeHoldsOnlyText(_)
CodeHoldsOnlyText(forest) ==
    \A i \in 1..Len(forest) :
        forest[i].u = "Nested" =>
            IF forest[i].tag.t = "CodeBlock"
            THEN \A j \in 1..Len(forest[i].events) :
                     /\ forest[i].events[j].u = "Event"
                     /\ forest[i].events[j].event.k = "Text"
            ELSE CodeHoldsOnlyText(forest[i].events)

\* events_to_ast has returned.
EventsToAstReturned == Built \/ (mode = "ast" /\ pc = "done")

\* C28, as stated: whenever events_to_ast returns, the strings of the text and
\* code spans of the blocks, in order, a code block's code counted as the
\* concatenation of its text events, are the strings of the Text and Code
\* events of the input, in order.
C28_TextSequence ==
    EventsToAstReturned => TextsOfBlocks(ast) = TextsOfForest(root)

\* C28, amended: the same, on events in which every child of a code block is
\* a Text event.
C28_TextSequenceOfPlainCode ==
    (EventsToAstReturned /\ CodeHoldsOnlyText(root)) =>
        TextsOfBlocks(ast) = TextsOfForest(root)

\* C28, its case: events_to_ast returned for a text, a paragraph of a text and
\* an emphasis of a text.
C28_Witness ==
    /\ Built
    /\ Len(root) = 3
    /\ TextsOfForest(root) = <<"a", "b", "a">>
    /\ TextsOfBlocks(ast) = <<"a", "b", "a">>

\* C28, its case: events_to_ast returned for a text and a code span.
C28_WitnessCodeSpan ==
    /\ Built
    /\ TextsOfForest(root) = <<"a", "c">>
    /\ TextsOfBlocks(ast) = <<"a", "c">>

\* C28, its case: events_to_ast returned for a code block of two Text events.
C28_WitnessCode ==
    /\ Built
    /\ Len(root) = 1
    /\ root[1].u = "Nested"
    /\ root[1].tag.t = "CodeBlock"
    /\ Len(root[1].events) = 2
    /\ CodeHoldsOnlyText(root)
    /\ TextsOfBlocks(ast) = <<"ab">>

\* ---------------------------------------------------------------------------
\* Properties of the notebook exporter
\* ---------------------------------------------------------------------------

\* The number of List blocks whose conversion is in progress.
EnclosingLists == Cardinality({i \in 1..Len(nb_stack) : nb_stack[i].fn = "List"})

\* The State of the innermost block_to_cells call.
CurrentState == nb_state[Len(nb_state)]

\* list_item_to_cells is about to convert a Paragraph.
ItemParagraphNext ==
    /\ nb_pc = "run"
    /\ TopFrame.fn = "list_item_to_cells"
    /\ TopFrame.rest # <<>>
    /\ Head(TopFrame.rest).b = "Paragraph"

\* The style of a paragraph that n List blocks enclose.
StyleOfDepth(n) ==
    CASE n = 1 -> "Item"
      [] n = 2 -> "Subitem"
      [] n = 3 -> "Subsubitem"

\* The style of the cell gathered last by the innermost loop in progress.
LastCellStyle(stack) ==
    LET cells == stack[Len(stack)].cells IN cells[Len(cells)].args[2]

\* C29: a paragraph inside a list item becomes a cell of style Item, Subitem
\* or Subsubitem as one, two or three List blocks enclose it, and its
\* conversion fails when more than three do; while a conversion is running
\* list_depth is the number of List blocks being converted, so that it is back
\* at its previous value after each List, and at 0 when block_to_cells
\* returns.
C29_ListDepthAndItemStyle ==
    /\ [](nb_pc = "run" =>
            /\ CurrentState.list_depth = EnclosingLists
            /\ (TopFrame.fn = "block_to_cells" /\ TopFrame.rest = <<>>) =>
                   CurrentState.list_depth = 0)
    /\ [][ItemParagraphNext =>
            IF EnclosingLists > 3 THEN nb_pc' = "panic"
            ELSE IF inlines_to_text_data(Head(TopFrame.rest).inlines).ok
            THEN /\ nb_pc' = "run"
                 /\ Len(nb_stack'[Len(nb_stack)].cells) = Len(TopFrame.cells) + 1
                 /\ LastCellStyle(nb_stack') = Expr_string(StyleOfDepth(EnclosingLists))
            ELSE nb_pc' = "panic"]_vars

\* C29, its case: a paragraph that three List blocks enclose was converted,
\* after a List inside its item was.
C29_Witness ==
    /\ nb_pc = "run"
    /\ EnclosingLists = 3
    /\ TopFrame.fn = "list_item_to_cells"
    /\ TopFrame.rest = <<>>
    /\ Len(TopFrame.cells) = 1
    /\ LastCellStyle(nb_stack) = Expr_string("Subsubitem")
    /\ nb_block.items[1][1].b = "List"
    /\ Len(nb_block.items[1][1].items[1]) = 2
    /\ nb_block.items[1][1].items[1][1].b = "List"

\* C29, its case: the conversion failed at a paragraph that four List blocks
\* enclose.
C29_WitnessTooDeep ==
    /\ nb_pc = "panic"
    /\ EnclosingLists = 4
    /\ TopFrame.fn = "list_item_to_cells"
    /\ Head(TopFrame.rest).b = "Paragraph"
    /\ CurrentState.list_depth = 4

\* C29, its case: block_to_cells returned the cells of a list in a list.
C29_WitnessReturned ==
    /\ nb_pc = "done"
    /\ nb_block.b = "List"
    /\ Len(nb_cells) = 2
    /\ nb_cells[1].args[2] = Expr_string("Item")
    /\ nb_cells[2].args[2] = Expr_string("Subitem")

\* ---------------------------------------------------------------------------
\* Properties of the Wolfram binding
\* ---------------------------------------------------------------------------

\* Whether inlines are Text and Strong, at any depth.
RECURSIVE TextAndStrongOnly(_)
TextAndStrongOnly(inlines) ==
    \A i \in 1..Len(inlines) :
        \/ inlines[i].i = "Text"
        \/ inlines[i].i = "Strong" /\ TextAndStrongOnly(inlines[i].inlines)

\* The block handed to block_to_expr is a heading of Text and Strong.
HeadingOfTextAndStrong ==
    /\ wl_block # None
    /\ wl_block[1].b = "Heading"
    /\ TextAndStrongOnly(wl_block[1].inlines)

\* C30: for a heading of any level whose inlines are Text and Strong,
\* parse_expr_to_block(block_to_expr(heading)) is Ok(heading): neither call
\* fails, and the block that comes back is the heading, level and inlines.
C30_HeadingRoundTrip ==
    HeadingOfTextAndStrong =>
        /\ wl_pc # "panic"
        /\ wl_pc = "done" => wl_parsed = Some(Ok(wl_block[1]))

====
